---- MODULE Spec2Model ----
(***************************************************************************)
(* Qualys2Human ingestion pipeline: layer classification (import-time and  *)
(* bulk reclassification), the importer run, duplicate-report detection    *)
(* and the directory watcher.                                              *)
(*                                                                         *)
(* Strings are sequences of one-character strings over Alphabet.           *)
(***************************************************************************)
EXTENDS Integers, Sequences, FiniteSets, TLC

VARIABLES
    cl,                 \* one finding and one rule set, classified both ways
    vuln_layer_rules,   \* table vuln_layer_rules (set of rows)
    vulnerabilities,    \* table vulnerabilities (sequence of committed rows)
    latest_vulns,       \* materialized view latest_vulns (rows at last refresh)
    reclassify_state,   \* the _reclassify singleton
    tasks,              \* the _run_reclassify tasks created by the trigger
    resp,               \* the last ReclassifyStartResponse
    applied_rules,      \* history: rule rows loaded by the last run that ended well
    scan_reports,       \* table scan_reports (sequence of committed rows)
    import_jobs,        \* table import_jobs (sequence of committed rows)
    hosts,              \* table hosts (sequence of committed rows)
    coherence_checks,   \* table report_coherence_checks (set of committed rows)
    imp,                \* the importer run in progress and its session
    clock,              \* datetime.utcnow()
    fs,                 \* the watched directory: per path, the file's stat
    fsclock,            \* the time the file system stamps mtimes with
    ignore_before,      \* the watch path's cutoff (<<>> when not set)
    watch_path,         \* the watch path's row: enabled, pattern, recursive
    known_files,        \* FileWatcherService._known_files
    watcher,            \* the poll loop's position, locals and activity fields
    passed,             \* history: the calls of import_callback
    cc,                 \* one call of _run_coherence_checks: inputs and records
    vuln_layers,        \* table vuln_layers (the ids of the committed rows)
    del,                \* the delete_layer request in progress and its session
    runs                \* importer runs that overlap in time, each with its session

clVars == <<cl, cc, runs>>
laVars == <<vuln_layers, del>>
dbVars == <<vuln_layer_rules, vulnerabilities, latest_vulns>>
reVars == <<reclassify_state, tasks, resp, applied_rules>>
imVars == <<scan_reports, import_jobs, hosts, coherence_checks, imp, clock>>
wpVars == <<ignore_before, watch_path>>
waVars == <<fs, fsclock, wpVars, known_files, watcher, passed>>
vars == <<cl, vuln_layer_rules, vulnerabilities, latest_vulns,
          reclassify_state, tasks, resp, applied_rules,
          scan_reports, import_jobs, hosts, coherence_checks, imp, clock,
          fs, fsclock, ignore_before, watch_path, known_files, watcher, passed, cc,
          vuln_layers, del, runs>>

----------------------------------------------------------------------------
(* Bounds *)

MaxTitleLen == 2
MaxPatLen == 1
MaxTasks == 2

----------------------------------------------------------------------------
(* Values *)

\* SQL NULL / Python None for integer-valued columns (ids and layers are >= 1).
NULL == 0

Alphabet == {"a", "A", "\\", "%"}

StrUpTo(n) == UNION {[1..k -> Alphabet] : k \in 0..n}

----------------------------------------------------------------------------
(* String functions *)

\* str.lower() / SQL lower()
LowerChar(c) == IF c = "A" THEN "a" ELSE c

Lower(s) == [i \in 1..Len(s) |-> LowerChar(s[i])]

\* Python: sub in s
Contains(sub, s) ==
    \E i \in 0..(Len(s) - Len(sub)) : SubSeq(s, i + 1, i + Len(sub)) = sub

\* rule.pattern.lower().replace("%", r"\%").replace("_", r"\_")
RECURSIVE EscapeLike(_)
EscapeLike(p) ==
    IF p = <<>> THEN <<>>
    ELSE IF Head(p) \in {"%", "_"}
         THEN <<"\\", Head(p)>> \o EscapeLike(Tail(p))
         ELSE <<Head(p)>> \o EscapeLike(Tail(p))

\* PostgreSQL  s LIKE p  with no ESCAPE clause: the escape character is the
\* backslash, % matches any sequence and _ any single character.
RECURSIVE LikeMatch(_, _)
LikeMatch(p, s) ==
    IF p = <<>> THEN s = <<>>
    ELSE IF Head(p) = "\\"
         THEN /\ Len(p) >= 2
              /\ s # <<>>
              /\ Head(s) = p[2]
              /\ LikeMatch(SubSeq(p, 3, Len(p)), Tail(s))
    ELSE IF Head(p) = "%"
         THEN \/ LikeMatch(Tail(p), s)
              \/ (s # <<>> /\ LikeMatch(p, Tail(s)))
    ELSE IF Head(p) = "_"
         THEN s # <<>> /\ LikeMatch(Tail(p), Tail(s))
    ELSE s # <<>> /\ Head(s) = Head(p) /\ LikeMatch(Tail(p), Tail(s))

\* func.lower(col).contains(escaped):  lower(col) LIKE '%' || escaped || '%'
SqlContains(col, escaped) ==
    LikeMatch(<<"%">> \o escaped \o <<"%">>, Lower(col))

----------------------------------------------------------------------------
(* Rule loading: select(VulnLayerRule).order_by(priority.desc()) *)

Range(f) == {f[i] : i \in DOMAIN f}

Perms(S) == {f \in [1..Cardinality(S) -> S] : Range(f) = S}

\* Every order of the rows that ORDER BY priority DESC allows: rows of equal
\* priority may come back in any order.
PriorityOrders(rows) ==
    {f \in Perms(rows) :
        \A i \in 1..(Len(f) - 1) : f[i].priority >= f[i + 1].priority}

----------------------------------------------------------------------------
(* Import-time classification *)

\* layer_rules = [(r.match_field, r.pattern.lower(), r.layer_id) ...]
LayerRules(rules) ==
    [i \in 1..Len(rules) |->
        [match_field |-> rules[i].match_field,
         pattern_lower |-> Lower(rules[i].pattern),
         lid |-> rules[i].layer_id]]

RuleMatchesRow(r, title_val, category_val) ==
    LET value == IF r.match_field = "title" THEN title_val ELSE category_val
    IN  Contains(r.pattern_lower, Lower(value))

\* a variant that assigns the first rule's layer without testing the match
ClassifyRow_first(layer_rules, title_val, category_val) ==
    IF layer_rules = <<>> THEN NULL ELSE layer_rules[1].lid

\* the for ... break loop: the first matching rule's layer, else None
ClassifyRow(layer_rules, title_val, category_val) ==
    LET hits == {i \in 1..Len(layer_rules) :
                    RuleMatchesRow(layer_rules[i], title_val, category_val)}
    IN  IF hits = {} THEN NULL
        ELSE layer_rules[CHOOSE i \in hits : \A j \in hits : i <= j].lid

----------------------------------------------------------------------------
(* Bulk reclassification of a table of findings *)

\* update(Vulnerability).values(layer_id=None)
ResetLayers(vs) == [i \in DOMAIN vs |-> [vs[i] EXCEPT !.layer_id = NULL]]

RuleStmtMatches(rule, v) ==
    LET col == IF rule.match_field = "title" THEN v.title ELSE v.category
        escaped == EscapeLike(Lower(rule.pattern))
    IN  v.layer_id = NULL /\ SqlContains(col, escaped)

\* update(Vulnerability).where(layer_id IS NULL).where(lower(col) LIKE ...)
\*     .values(layer_id=rule.layer_id)
ApplyRuleStmt(rule, vs) ==
    [i \in DOMAIN vs |->
        IF RuleStmtMatches(rule, vs[i])
        THEN [vs[i] EXCEPT !.layer_id = rule.layer_id]
        ELSE vs[i]]

RuleStmtRowcount(rule, vs) ==
    Cardinality({i \in DOMAIN vs : RuleStmtMatches(rule, vs[i])})

RECURSIVE ApplyRules(_, _)
ApplyRules(rules, vs) ==
    IF rules = <<>> THEN vs
    ELSE ApplyRules(Tail(rules), ApplyRuleStmt(Head(rules), vs))

----------------------------------------------------------------------------
(* The _reclassify singleton and its tasks *)

TaskIds == 1..MaxTasks

\* class _ReclassifyState: the attribute defaults
ReclassifyStateDefaults ==
    [running |-> FALSE, progress |-> 0, total_rules |-> 0, rules_applied |-> 0,
     classified |-> 0, error |-> "None", dirty |-> "None"]

NoOverlay == [i \in {} |-> NULL]

FreeTask == [pc |-> "free", rules |-> <<>>, i |-> 0, overlay |-> NoOverlay]

\* no reclassification has been triggered, the tables are empty
ReIdle ==
    /\ vuln_layer_rules = {}
    /\ vulnerabilities = <<>>
    /\ latest_vulns = <<>>
    /\ reclassify_state = ReclassifyStateDefaults
    /\ tasks = [t \in TaskIds |-> FreeTask]
    /\ resp = "none"
    /\ applied_rules = {}

----------------------------------------------------------------------------
(* The importer's session *)

NoJob == [id |-> NULL, status |-> "none", progress |-> 0, rows_processed |-> 0,
          rows_total |-> 0, started_at |-> NULL, ended_at |-> NULL,
          error_message |-> "None", scan_report_id |-> NULL]

NoReport == [id |-> NULL, filename |-> "", report_date |-> <<>>,
             asset_group |-> "", total_vulns_declared |-> <<>>, source |-> ""]

\* no importer has been constructed
NoImport ==
    [pc |-> "idle", file |-> "", source |-> "", report |-> NoReport,
     job |-> NoJob, hosts |-> <<>>, host_cache |-> {}, vulns |-> <<>>,
     layer_rules |-> <<>>, next_row |-> 0, error |-> "None"]

\* no import has run, the tables are empty
ImIdle ==
    /\ scan_reports = <<>>
    /\ import_jobs = <<>>
    /\ hosts = <<>>
    /\ coherence_checks = {}
    /\ imp = NoImport
    /\ clock = 1

----------------------------------------------------------------------------
(* One call of _run_coherence_checks *)

\* no call was made
\* no delete_layer request is in progress
NoDelete == [pc |-> "none", layer_id |-> NULL, updated |-> {}]

\* layers 1 and 2 of the migration's seed, none being deleted
LaIdle ==
    /\ vuln_layers = {1, 2}
    /\ del = NoDelete

NoCase ==
    [pc |-> "none", total_vulns |-> <<>>, active_hosts |-> <<>>,
     host_summaries |-> <<>>, df |-> <<>>, checks |-> {}]

CoIdle == cc = NoCase

MaxRuns == 2

RunIds == 1..MaxRuns

\* a session in which no importer has run yet
NoRun ==
    [pc |-> "idle", file |-> "", report |-> NoReport, job |-> NoJob,
     next_row |-> 0, host_cache |-> [ip \in {} |-> NULL], inserted |-> <<>>,
     updated |-> {}, vulns |-> <<>>, layer_rules |-> <<>>, error |-> "None"]

\* no overlapping uploads: the sessions are unused, the id sequences at 1
RunsIdle == runs = [session |-> [s \in RunIds |-> NoRun], report_seq |-> 1, host_seq |-> 1]

----------------------------------------------------------------------------
(* The file watcher *)

WatchedFiles == {"x.csv", "y.csv"}

\* a file in a subdirectory of the watched directory
SubFiles == {"sub/z.csv"}

AllFiles == WatchedFiles \cup SubFiles

\* api/watcher.py 22-24: the defaults of a watch path
DefaultWatchPath == [enabled |-> TRUE, pattern |-> <<"*.csv">>, recursive |-> FALSE]

NoFile == [exists |-> FALSE, mtime |-> 0, size |-> 0]

EmptyDict == [k \in {} |-> 0]

\* FileWatcherService.__init__, and no task started
NoWatcher ==
    [pc |-> "stopped", todo |-> {}, key |-> "", current_mtime |-> 0,
     size1 |-> 0, importing |-> "None", last_import |-> "None",
     last_error |-> "None", import_count |-> 0, running |-> FALSE]

\* the watcher was never started, the directory is empty
WaIdle ==
    /\ fs = [k \in AllFiles |-> NoFile]
    /\ fsclock = 1
    /\ ignore_before = <<>>
    /\ watch_path = DefaultWatchPath
    /\ known_files = EmptyDict
    /\ watcher = NoWatcher
    /\ passed = <<>>

----------------------------------------------------------------------------
(* Specification SpecClassify: one finding, two stored rules, classified   *)
(* by the importer's loop and then by the reclassification statements.     *)

ClCategories == {<<>>, <<"a">>, <<"\\">>}

ClRule(id, lid, field, pat, prio) ==
    [id |-> id, layer_id |-> lid, match_field |-> field, pattern |-> pat,
     priority |-> prio]

ClInit ==
    /\ \E t \in StrUpTo(MaxTitleLen), c \in ClCategories,
       p1 \in StrUpTo(MaxPatLen), p2 \in StrUpTo(MaxPatLen),
       f1 \in {"title", "category"}, f2 \in {"title", "category"},
       pr \in {<<2, 1>>, <<1, 2>>, <<1, 1>>} :
        cl = [pc |-> "new", title |-> t, category |-> c,
              rules |-> {ClRule(1, 1, f1, p1, pr[1]), ClRule(2, 2, f2, p2, pr[2])},
              imported |-> NULL, reclassified |-> NULL,
              imported2 |-> NULL, reclassified2 |-> NULL]
    /\ ReIdle
    /\ ImIdle
    /\ CoIdle
    /\ LaIdle
    /\ RunsIdle
    /\ WaIdle

\* importer.py 52-59 and 115-123 on one row
ClImport ==
    /\ cl.pc = "new"
    /\ \E order \in PriorityOrders(cl.rules) :
        cl' = [cl EXCEPT !.pc = "imported",
                         !.imported = ClassifyRow(LayerRules(order), cl.title, cl.category)]
    /\ UNCHANGED <<cc, runs, laVars, dbVars, reVars, imVars, waVars>>

\* layers.py 266-298 on a table holding that one finding
ClReclassify ==
    /\ cl.pc = "imported"
    /\ \E order \in PriorityOrders(cl.rules) :
        LET table == <<[title |-> cl.title, category |-> cl.category,
                        layer_id |-> cl.imported]>>
        IN  cl' = [cl EXCEPT !.pc = "reclassified",
                             !.reclassified =
                                 ApplyRules(order, ResetLayers(table))[1].layer_id]
    /\ UNCHANGED <<cc, runs, laVars, dbVars, reVars, imVars, waVars>>

\* importer.py 52-59 and 115-123: a later import of the same finding, the
\* rules unchanged and loaded again
ClImportAgain ==
    /\ cl.pc = "reclassified"
    /\ \E order \in PriorityOrders(cl.rules) :
        cl' = [cl EXCEPT !.pc = "imported2",
                         !.imported2 = ClassifyRow(LayerRules(order), cl.title, cl.category)]
    /\ UNCHANGED <<cc, runs, laVars, dbVars, reVars, imVars, waVars>>

\* layers.py 266-298: a later run over the same finding, the rules unchanged
\* and loaded again
ClReclassifyAgain ==
    /\ cl.pc = "imported2"
    /\ \E order \in PriorityOrders(cl.rules) :
        LET table == <<[title |-> cl.title, category |-> cl.category,
                        layer_id |-> cl.reclassified]>>
        IN  cl' = [cl EXCEPT !.pc = "reclassified2",
                             !.reclassified2 =
                                 ApplyRules(order, ResetLayers(table))[1].layer_id]
    /\ UNCHANGED <<cc, runs, laVars, dbVars, reVars, imVars, waVars>>

ClNext == ClImport \/ ClReclassify \/ ClImportAgain \/ ClReclassifyAgain

\* C3: a finding matched by two rules of different priority gets the layer
\* of the higher-priority rule from the importer and from reclassification.
C3_FirstMatchWins ==
    cl.pc = "reclassified" =>
        \A hi \in cl.rules, lo \in cl.rules :
            ( /\ hi.priority > lo.priority
              /\ RuleMatchesRow(LayerRules(<<hi>>)[1], cl.title, cl.category)
              /\ RuleMatchesRow(LayerRules(<<lo>>)[1], cl.title, cl.category) )
            => (cl.imported = hi.layer_id /\ cl.reclassified = hi.layer_id)

\* C4: the layer the importer assigns equals the layer a full
\* reclassification assigns to the same finding under the same rule set.
\* (Stated for rules whose priorities differ, where ORDER BY fixes the order
\* in which both paths read the rules.)
C4_ImportEqualsReclassify ==
    ( /\ cl.pc = "reclassified"
      /\ \A r1 \in cl.rules, r2 \in cl.rules :
             r1.id # r2.id => r1.priority # r2.priority )
    => cl.reclassified = cl.imported

SpecClassify == ClInit /\ [][ClNext]_vars

----------------------------------------------------------------------------
(* Specification SpecReclass: rule mutations and reclassification runs     *)
(* over a table of persisted findings.                                     *)

\* The rules an administrator may create (the row id is the template's).
RuleTemplates ==
    { [id |-> 1, layer_id |-> 1, match_field |-> "title", pattern |-> <<"a">>,
       priority |-> 2],
      [id |-> 2, layer_id |-> 2, match_field |-> "category", pattern |-> <<"A">>,
       priority |-> 1] }

\* The findings earlier imports persisted (title, category).
ReFindings ==
    << [title |-> <<"A">>, category |-> <<>>],
       [title |-> <<"\\">>, category |-> <<"a">>] >>

\* Findings as the importer stored them under the rules loaded in `order`.
ImportedUnder(order) ==
    [i \in DOMAIN ReFindings |->
        [title |-> ReFindings[i].title, category |-> ReFindings[i].category,
         layer_id |-> ClassifyRow(LayerRules(order), ReFindings[i].title,
                                  ReFindings[i].category)]]

ReInit ==
    /\ cl = [pc |-> "none"]
    /\ \E rs \in SUBSET RuleTemplates :
        /\ vuln_layer_rules = rs
        /\ \E order \in PriorityOrders(rs) :
            /\ vulnerabilities = ImportedUnder(order)
            /\ latest_vulns = ImportedUnder(order)
    /\ reclassify_state = ReclassifyStateDefaults
    /\ tasks = [t \in TaskIds |-> FreeTask]
    /\ resp = "none"
    /\ applied_rules = {}
    /\ ImIdle
    /\ CoIdle
    /\ LaIdle
    /\ RunsIdle
    /\ WaIdle

\* layers.py 191-211
create_rule(tpl) ==
    /\ tpl.layer_id \in vuln_layers
    /\ \A r \in vuln_layer_rules : r.id # tpl.id
    /\ vuln_layer_rules' = vuln_layer_rules \cup {tpl}
    /\ reclassify_state' = [reclassify_state EXCEPT !.dirty = "True"]
    /\ UNCHANGED <<clVars, laVars, imVars, waVars, vulnerabilities, latest_vulns, tasks, resp, applied_rules>>

\* layers.py 243-255
delete_rule(rule) ==
    /\ rule \in vuln_layer_rules
    /\ vuln_layer_rules' = vuln_layer_rules \ {rule}
    /\ reclassify_state' = [reclassify_state EXCEPT !.dirty = "True"]
    /\ UNCHANGED <<clVars, laVars, imVars, waVars, vulnerabilities, latest_vulns, tasks, resp, applied_rules>>

\* layers.py 318-319: a trigger while running is answered started=False
reclassify_refused ==
    /\ reclassify_state.running
    /\ resp' = "refused"
    /\ UNCHANGED <<clVars, laVars, imVars, waVars, dbVars, reclassify_state, tasks, applied_rules>>

\* layers.py 321-330: reset the state and create the task
reclassify_started ==
    /\ ~reclassify_state.running
    /\ \E t \in TaskIds :
        /\ tasks[t].pc = "free"
        /\ \A u \in TaskIds : tasks[u].pc = "free" => t <= u
        /\ tasks' = [tasks EXCEPT ![t] = [FreeTask EXCEPT !.pc = "scheduled"]]
    /\ reclassify_state' =
           [reclassify_state EXCEPT !.running = TRUE, !.progress = 0,
                                    !.total_rules = 0, !.rules_applied = 0,
                                    !.classified = 0, !.error = "None"]
    /\ resp' = "started"
    /\ UNCHANGED <<clVars, laVars, imVars, waVars, dbVars, applied_rules>>

\* The rows a task's statements see: the committed rows with the task's own
\* uncommitted updates laid over them.
TaskView(t) ==
    [i \in DOMAIN vulnerabilities |->
        IF i \in DOMAIN tasks[t].overlay
        THEN [vulnerabilities[i] EXCEPT !.layer_id = tasks[t].overlay[i]]
        ELSE vulnerabilities[i]]

\* Rows updated by another open transaction are locked until it ends.
OthersHoldLocks(t) ==
    \/ \E u \in TaskIds \ {t} : DOMAIN tasks[u].overlay # {}
    \/ del.pc = "updated" /\ del.updated # {}

OverlayOf(vs) == [i \in DOMAIN vs |-> vs[i].layer_id]

\* layers.py 264-275: load the rules; with no rule, return at once
run_load_none(t) ==
    /\ tasks[t].pc = "scheduled"
    /\ vuln_layer_rules = {}
    /\ tasks' = [tasks EXCEPT ![t].pc = "closing"]
    /\ reclassify_state' =
           [reclassify_state EXCEPT !.total_rules = 0, !.progress = 100,
                                    !.running = FALSE]
    /\ applied_rules' = {}
    /\ UNCHANGED <<clVars, laVars, imVars, waVars, dbVars, resp>>

\* layers.py 264-270: load the rules (at least one)
run_load_rules(t) ==
    /\ tasks[t].pc = "scheduled"
    /\ vuln_layer_rules # {}
    /\ \E order \in PriorityOrders(vuln_layer_rules) :
        tasks' = [tasks EXCEPT ![t].pc = "reset", ![t].rules = order]
    /\ reclassify_state' =
           [reclassify_state EXCEPT !.total_rules = Cardinality(vuln_layer_rules)]
    /\ UNCHANGED <<clVars, laVars, imVars, waVars, dbVars, resp, applied_rules>>

\* layers.py 277-279: reset all layer_ids
run_reset(t) ==
    /\ tasks[t].pc = "reset"
    /\ ~OthersHoldLocks(t)
    /\ tasks' = [tasks EXCEPT ![t].pc = "rules", ![t].i = 0,
                              ![t].overlay = OverlayOf(ResetLayers(vulnerabilities))]
    /\ reclassify_state' = [reclassify_state EXCEPT !.progress = 5]
    /\ UNCHANGED <<clVars, laVars, imVars, waVars, dbVars, resp, applied_rules>>

\* vulnerabilities.layer_id references vuln_layers.id (migration c4f8a2b71e03
\* line 44): a rule's update that would store the id of a deleted layer
RuleStmtViolatesFk(t) ==
    LET rule == tasks[t].rules[tasks[t].i + 1]
    IN  /\ rule.layer_id \notin vuln_layers
        /\ RuleStmtRowcount(rule, TaskView(t)) > 0

\* layers.py 281-291: the rule's update raises IntegrityError
run_rule_fk(t) ==
    /\ tasks[t].pc = "rules"
    /\ ~OthersHoldLocks(t)
    /\ RuleStmtViolatesFk(t)
    /\ tasks' = [tasks EXCEPT ![t].pc = "failed"]
    /\ UNCHANGED <<clVars, laVars, imVars, waVars, dbVars, reclassify_state, resp, applied_rules>>

\* layers.py 281-297: one rule's conditional update and the progress fields
run_rule(t) ==
    /\ tasks[t].pc = "rules"
    /\ ~OthersHoldLocks(t)
    /\ ~RuleStmtViolatesFk(t)
    /\ LET rule == tasks[t].rules[tasks[t].i + 1]
           total == reclassify_state.total_rules
           done == tasks[t].i + 1
       IN  /\ tasks' = [tasks EXCEPT
                  ![t].overlay = OverlayOf(ApplyRuleStmt(rule, TaskView(t))),
                  ![t].i = done,
                  ![t].pc = IF done = Len(tasks[t].rules) THEN "commit" ELSE "rules"]
           /\ reclassify_state' =
                  [reclassify_state EXCEPT
                      !.classified = @ + RuleStmtRowcount(rule, TaskView(t)),
                      !.rules_applied = done,
                      !.progress = IF total = 0 THEN @ ELSE 5 + ((95 * done) \div total)]
    /\ UNCHANGED <<clVars, laVars, imVars, waVars, dbVars, resp, applied_rules>>

\* layers.py 299: commit the reset and the rule updates
run_commit(t) ==
    /\ tasks[t].pc = "commit"
    /\ vulnerabilities' = TaskView(t)
    /\ tasks' = [tasks EXCEPT ![t].pc = "refresh", ![t].overlay = NoOverlay]
    /\ UNCHANGED <<clVars, laVars, imVars, waVars, vuln_layer_rules, latest_vulns, reclassify_state, resp,
                   applied_rules>>

\* layers.py 301-306: refresh the materialized view, then progress and dirty
run_refresh(t) ==
    /\ tasks[t].pc = "refresh"
    /\ latest_vulns' = vulnerabilities
    /\ tasks' = [tasks EXCEPT ![t].pc = "closing"]
    /\ reclassify_state' =
           [reclassify_state EXCEPT !.progress = 100, !.dirty = "False"]
    /\ applied_rules' = Range(tasks[t].rules)
    /\ UNCHANGED <<clVars, laVars, imVars, waVars, vuln_layer_rules, vulnerabilities, resp>>

\* a statement of the run raises (the store is unavailable)
run_raise(t) ==
    /\ tasks[t].pc \in {"scheduled", "reset", "rules", "commit", "refresh"}
    /\ tasks' = [tasks EXCEPT ![t].pc = "failed"]
    /\ UNCHANGED <<clVars, laVars, imVars, waVars, dbVars, reclassify_state, resp, applied_rules>>

\* layers.py 264, 310-311: the session is closed, then finally
run_close(t) ==
    /\ tasks[t].pc = "closing"
    /\ tasks' = [tasks EXCEPT ![t] = FreeTask]
    /\ reclassify_state' = [reclassify_state EXCEPT !.running = FALSE]
    /\ UNCHANGED <<clVars, laVars, imVars, waVars, dbVars, resp, applied_rules>>

\* layers.py 264, 307-311: the session is closed (rollback), except, finally
run_close_failed(t) ==
    /\ tasks[t].pc = "failed"
    /\ tasks' = [tasks EXCEPT ![t] = FreeTask]
    /\ reclassify_state' =
           [reclassify_state EXCEPT !.error = "error", !.running = FALSE]
    /\ UNCHANGED <<clVars, laVars, imVars, waVars, dbVars, resp, applied_rules>>

\* a variant that deletes the findings of the layer
NullifyLayer_cascade(l, vs) == SelectSeq(vs, LAMBDA v : v.layer_id # l)

\* layers.py 154-156: update(Vulnerability).where(layer_id == l).values(None)
NullifyLayer(l, vs) ==
    [i \in DOMAIN vs |->
        IF vs[i].layer_id = l THEN [vs[i] EXCEPT !.layer_id = NULL] ELSE vs[i]]

\* the committed findings that reference layer l
ReferencingRows(l) ==
    {i \in DOMAIN vulnerabilities : vulnerabilities[i].layer_id = l}

\* a reclassification holds uncommitted updates
RunHoldsLocks == \E t \in TaskIds : DOMAIN tasks[t].overlay # {}

\* The layers an administrator asks to delete.
DeletedLayers == {1}

\* layers.py 150-160: the layer is found, its findings are nullified and its
\* rules deleted in the request's transaction (the update waits for the row
\* locks of a run in flight)
delete_layer_update(l) ==
    /\ del.pc = "none"
    /\ l \in vuln_layers
    /\ ReferencingRows(l) # {} => ~RunHoldsLocks
    /\ del' = [pc |-> "updated", layer_id |-> l, updated |-> ReferencingRows(l)]
    /\ UNCHANGED <<clVars, vuln_layers, imVars, waVars, dbVars, reVars>>

\* a run in flight stored layer l in a finding and has not committed: it
\* holds the key-share lock of the layer's row
RunReferences(l) ==
    \E t \in TaskIds : \E i \in DOMAIN tasks[t].overlay : tasks[t].overlay[i] = l

\* layers.py 161-162: the layer's row is deleted and the transaction commits
delete_layer_commit ==
    /\ del.pc = "updated"
    /\ ~RunReferences(del.layer_id)
    /\ ReferencingRows(del.layer_id) \subseteq del.updated
    /\ vulnerabilities' = NullifyLayer(del.layer_id, vulnerabilities)
    /\ vuln_layer_rules' = {r \in vuln_layer_rules : r.layer_id # del.layer_id}
    /\ vuln_layers' = vuln_layers \ {del.layer_id}
    /\ del' = [del EXCEPT !.pc = "refresh"]
    /\ UNCHANGED <<clVars, imVars, waVars, latest_vulns, reVars>>

\* layers.py 161-162: a finding committed since the update references the
\* layer, the delete raises IntegrityError and the request is rolled back
delete_layer_raised ==
    /\ del.pc = "updated"
    /\ ~RunReferences(del.layer_id)
    /\ ~(ReferencingRows(del.layer_id) \subseteq del.updated)
    /\ del' = NoDelete
    /\ UNCHANGED <<clVars, vuln_layers, imVars, waVars, dbVars, reVars>>

\* layers.py 163-166: refresh the materialized view, then dirty
delete_layer_refresh ==
    /\ del.pc = "refresh"
    /\ latest_vulns' = vulnerabilities
    /\ reclassify_state' = [reclassify_state EXCEPT !.dirty = "True"]
    /\ del' = NoDelete
    /\ UNCHANGED <<clVars, vuln_layers, imVars, waVars, vuln_layer_rules, vulnerabilities,
                   tasks, resp, applied_rules>>

ReNext ==
    \/ \E tpl \in RuleTemplates : create_rule(tpl)
    \/ \E rule \in vuln_layer_rules : delete_rule(rule)
    \/ reclassify_refused
    \/ reclassify_started
    \/ \E t \in TaskIds :
        \/ run_load_none(t)
        \/ run_load_rules(t)
        \/ run_reset(t)
        \/ run_rule(t)
        \/ run_commit(t)
        \/ run_refresh(t)
        \/ run_raise(t)
        \/ run_close(t)
        \/ run_close_failed(t)

SpecReclass == ReInit /\ [][ReNext]_vars

\* A run is active from the creation of its task until it has left the
\* session block (it is then only closing the session).
ActiveRuns == {t \in TaskIds : tasks[t].pc \notin {"free", "closing", "failed"}}

\* C1: under any interleaving of triggers (a trigger received while
\* running is refused and changes nothing) at most one reclassification run
\* is active at any time.
C1_AtMostOneRun == Cardinality(ActiveRuns) <= 1

\* case-insensitive substring match of a rule on a finding
RuleMatchesFinding(rule, v) ==
    RuleMatchesRow(LayerRules(<<rule>>)[1], v.title, v.category)

\* the last run ended without error, nothing runs, and the rules are still
\* those it loaded
RunCompleted ==
    /\ ~reclassify_state.running
    /\ reclassify_state.progress = 100
    /\ reclassify_state.error = "None"
    /\ \A t \in TaskIds : tasks[t].pc = "free"
    /\ applied_rules = vuln_layer_rules

\* C2: after a reclassify run that completed successfully, a finding has a
\* layer exactly when it matches at least one rule, and dirty is false.
C2_ReclassifyComplete ==
    RunCompleted =>
        /\ \A i \in DOMAIN vulnerabilities :
               (vulnerabilities[i].layer_id # NULL) <=>
                   (\E r \in vuln_layer_rules :
                        RuleMatchesFinding(r, vulnerabilities[i]))
        /\ reclassify_state.dirty = "False"

----------------------------------------------------------------------------
(* Specification SpecImport: Qualys CSV files imported one after the other,
   by the watcher callback _auto_import or by the upload endpoint. *)

\* text that int() accepts, with its value
IntValue ==
    [s \in {"0", "1", "2", "3", "443"} |->
        CASE s = "0" -> 0 [] s = "1" -> 1 [] s = "2" -> 2 [] s = "3" -> 3
          [] OTHER -> 443]

\* int(s) raises ValueError
IntRaises(s) == s \notin DOMAIN IntValue

\* str.isdigit()
IsDigit(s) == s \in DOMAIN IntValue

\* text that strptime accepts under "%m/%d/%Y", with the day it denotes
DateValue ==
    [s \in {"02/24/2026", "02/25/2026", "02/26/2026"} |->
        CASE s = "02/24/2026" -> 1 [] s = "02/25/2026" -> 2 [] OTHER -> 3]

\* text the header's date pattern \d{2}/\d{2}/\d{4} finds
DatePatternTexts == DOMAIN DateValue \cup {"13/45/2026"}

\* parse_dt of the importer: None for text no format accepts
parse_dt(val) == IF val \in DOMAIN DateValue THEN <<DateValue[val]>> ELSE <<>>

\* one detail row as csv.DictReader yields it: every value is text
DetailRow(ip, dns, os, severity, qid, port, times, first, title, category) ==
    [IP |-> ip, DNS |-> dns, OS |-> os, Severity |-> severity, QID |-> qid,
     Port |-> port, TimesDetected |-> times, FirstDetected |-> first,
     Title |-> title, Category |-> category]

\* The files the watched directory and the uploads offer. decodes: the
\* encodings that decode the file's bytes; latin-1 decodes any bytes.
Files ==
    { \* a well-formed report: two findings on one host
      [name |-> "a.csv", decodes |-> {"utf-8", "latin-1", "cp1252"},
       date |-> "02/24/2026", asset_group |-> "G",
       active_hosts |-> "1", total_vulns |-> "2",
       summaries |-> <<[ip |-> "10.0.0.1", total_vulns |-> "2"]>>,
       has_detail |-> TRUE,
       rows |-> << DetailRow("10.0.0.1", "d", "w", "3", "1", "443", "2",
                             "02/24/2026", <<"A">>, <<>>),
                   DetailRow("10.0.0.1", "d", "w", "3", "2", "", "",
                             "", <<"\\">>, <<"a">>) >>],
      \* a later report of the same host, declaring 3 findings and listing
      \* 1: DNS and OS left empty, an empty severity, a port and a date that
      \* are not well formed
      [name |-> "b.csv", decodes |-> {"latin-1"},
       date |-> "02/25/2026", asset_group |-> "G",
       active_hosts |-> "1", total_vulns |-> "3",
       summaries |-> <<[ip |-> "10.0.0.1", total_vulns |-> "1"]>>,
       has_detail |-> TRUE,
       rows |-> << DetailRow("10.0.0.1", "", "", "", "1", "https", "",
                             "2026-02-25", <<"a">>, <<>>) >>],
      \* a report whose header carries no date, asset group or totals
      [name |-> "c.csv", decodes |-> {"utf-8", "latin-1", "cp1252"},
       date |-> "", asset_group |-> "",
       active_hosts |-> "", total_vulns |-> "",
       summaries |-> <<>>,
       has_detail |-> TRUE,
       rows |-> << DetailRow("10.0.0.2", "e", "", "3", "1", "", "",
                             "", <<>>, <<>>) >>],
      \* a report whose second row has a severity that is not a number
      [name |-> "d.csv", decodes |-> {"utf-8", "latin-1", "cp1252"},
       date |-> "02/26/2026", asset_group |-> "G",
       active_hosts |-> "2", total_vulns |-> "2",
       summaries |-> <<>>,
       has_detail |-> TRUE,
       rows |-> << DetailRow("10.0.0.1", "n", "", "3", "1", "", "",
                             "", <<>>, <<>>),
                   DetailRow("10.0.0.2", "e", "", "high", "1", "", "",
                             "", <<>>, <<>>) >>],
      \* a report without the detail section
      [name |-> "e.csv", decodes |-> {"utf-8", "latin-1", "cp1252"},
       date |-> "02/26/2026", asset_group |-> "G",
       active_hosts |-> "1", total_vulns |-> "1",
       summaries |-> <<>>,
       has_detail |-> FALSE,
       rows |-> <<>>],
      \* a report whose detail section has its header line and no row
      [name |-> "f.csv", decodes |-> {"utf-8", "latin-1", "cp1252"},
       date |-> "02/26/2026", asset_group |-> "G",
       active_hosts |-> "0", total_vulns |-> "0",
       summaries |-> <<>>,
       has_detail |-> TRUE,
       rows |-> <<>>],
      \* a report whose header declares a total that is not a number
      [name |-> "g.csv", decodes |-> {"utf-8", "latin-1", "cp1252"},
       date |-> "02/26/2026", asset_group |-> "G",
       active_hosts |-> "1", total_vulns |-> "n/a",
       summaries |-> <<>>,
       has_detail |-> TRUE,
       rows |-> <<>>] }

FileNames == {f.name : f \in Files}

FileNamed(name) == CHOOSE f \in Files : f.name = name

\* _load_lines: the first of utf-8, latin-1, cp1252 that decodes the file,
\* "none" when it raises ValueError
load_lines(f) ==
    LET encodings == <<"utf-8", "latin-1", "cp1252">>
        fit == {k \in DOMAIN encodings : encodings[k] \in f.decodes}
    IN  IF fit = {} THEN "none"
        ELSE encodings[CHOOSE k \in fit : \A m \in fit : k <= m]

\* a variant that reads an empty header field as 0
OptInt_zero(text) == IF text = "" THEN <<0>> ELSE <<IntValue[text]>>

\* int(x) if x else None, on header text
OptInt(text) == IF text = "" THEN <<>> ELSE <<IntValue[text]>>

\* parse_header raises: strptime or int() refuse the header's text
parse_header_raises(f) ==
    \/ f.date \in DatePatternTexts \ DOMAIN DateValue
    \/ f.active_hosts # "" /\ IntRaises(f.active_hosts)
    \/ f.total_vulns # "" /\ IntRaises(f.total_vulns)

\* parse_host_summary raises: int() refuses a host's total
parse_host_summary_raises(f) ==
    \E i \in DOMAIN f.summaries :
        f.summaries[i].total_vulns # "" /\ IntRaises(f.summaries[i].total_vulns)

\* parse_header: the ReportMetadata of a file
parse_header(f) ==
    [report_date |-> IF f.date \in DOMAIN DateValue
                     THEN <<DateValue[f.date]>> ELSE <<>>,
     asset_group |-> f.asset_group,
     active_hosts |-> OptInt(f.active_hosts),
     total_vulns |-> OptInt(f.total_vulns)]

\* parse_host_summary: the HostSummary list of a file
parse_host_summary(f) ==
    [i \in DOMAIN f.summaries |->
        [ip |-> f.summaries[i].ip,
         total_vulns |-> IF f.summaries[i].total_vulns = "" THEN 0
                         ELSE IntValue[f.summaries[i].total_vulns]]]

\* parse_detail_rows: the rows that have an IP
parse_detail_rows(f) == SelectSeq(f.rows, LAMBDA row : row.IP # "")

MaxReports == 3
MaxClock == 2
FlushEvery == 5000

SpecImportInit ==
    /\ cl = [pc |-> "none"]
    /\ vuln_layer_rules = RuleTemplates
    /\ vulnerabilities = <<>>
    /\ latest_vulns = <<>>
    /\ reclassify_state = ReclassifyStateDefaults
    /\ tasks = [t \in TaskIds |-> FreeTask]
    /\ resp = "none"
    /\ applied_rules = {}
    /\ ImIdle
    /\ CoIdle
    /\ LaIdle
    /\ RunsIdle
    /\ WaIdle

\* main.py 46-51: the conditions of the duplicate lookup, on one report row
DuplicateConditions(meta, r) ==
    /\ r.report_date = meta.report_date
    /\ (meta.asset_group # "" => r.asset_group = meta.asset_group)
    /\ (meta.total_vulns # <<>> => r.total_vulns_declared = meta.total_vulns)

\* the committed reports the duplicate lookup selects
ExistingReports(meta) ==
    {i \in DOMAIN scan_reports : DuplicateConditions(meta, scan_reports[i])}

\* a new Host: first_seen and last_seen are left to the table, which has no
\* default for them
NewHost(id, row) ==
    [id |-> id, ip |-> row.IP, dns |-> row.DNS, os |-> row.OS, last_seen |-> NULL]

\* a variant that takes DNS and OS from the row as they are
UpdateHost_overwrite(host, row, now) ==
    [host EXCEPT !.last_seen = now, !.dns = row.DNS, !.os = row.OS]

\* a Host seen again at utcnow() = now
UpdateHost(host, row, now) ==
    [host EXCEPT !.last_seen = now,
                 !.dns = IF row.DNS # "" THEN row.DNS ELSE host.dns,
                 !.os = IF row.OS # "" THEN row.OS ELSE host.os]

\* the rows SELECT ... WHERE ip = :ip returns
HostsWithIp(table, ip) == {i \in DOMAIN table : table[i].ip = ip}

\* the hosts table as the session sees it after the upsert of row's host
UpsertHost(table, row, now) ==
    LET found == HostsWithIp(table, row.IP)
    IN  IF found = {}
        THEN Append(table, NewHost(Len(table) + 1, row))
        ELSE LET i == CHOOSE i \in found : TRUE
             IN  [table EXCEPT ![i] = UpdateHost(table[i], row, now)]

\* x or "0"
OrZero(text) == IF text = "" THEN "0" ELSE text

\* one of the int() calls on the row's fields raises ValueError
RowRaises(row) ==
    \/ IntRaises(OrZero(row.Severity))
    \/ IntRaises(OrZero(row.QID))
    \/ row.TimesDetected # "" /\ IntRaises(row.TimesDetected)

\* the Vulnerability built from a row whose fields int() accepts
NewVulnerability(report_id, host_id, row, layer_rules) ==
    [scan_report_id |-> report_id,
     host_id |-> host_id,
     qid |-> IntValue[OrZero(row.QID)],
     title |-> row.Title,
     category |-> row.Category,
     severity |-> IntValue[OrZero(row.Severity)],
     port |-> IF row.Port # "" /\ IsDigit(row.Port)
              THEN <<IntValue[row.Port]>> ELSE <<>>,
     first_detected |-> parse_dt(row.FirstDetected),
     times_detected |-> IF row.TimesDetected # ""
                        THEN <<IntValue[row.TimesDetected]>> ELSE <<>>,
     layer_id |-> ClassifyRow(layer_rules, row.Title, row.Category)]

Abs(n) == IF n < 0 THEN 0 - n ELSE n

\* the ReportCoherenceCheck rows _run_coherence_checks adds
CoherenceChecks(report_id, meta, host_summaries, df) ==
    LET actual_vuln_count == Len(df)
        detail_ips == {df[i].IP : i \in DOMAIN df}
        actual_host_count == Cardinality(detail_ips)
        summary_ips == {host_summaries[i].ip : i \in DOMAIN host_summaries}
        actual_for_host(ip) == Cardinality({i \in DOMAIN df : df[i].IP = ip})
        Check(type, entity, severity) ==
            [scan_report_id |-> report_id, check_type |-> type,
             entity |-> entity, severity |-> severity]
    IN  {Check("total_vulns_mismatch", "",
               IF Abs(meta.total_vulns[1] - actual_vuln_count) <= 2
               THEN "warning" ELSE "error") :
            x \in {y \in {1} : /\ meta.total_vulns # <<>>
                               /\ meta.total_vulns[1] # actual_vuln_count}}
        \cup
        {Check("host_count_mismatch", "", "warning") :
            x \in {y \in {1} : /\ meta.active_hosts # <<>>
                               /\ meta.active_hosts[1] # actual_host_count}}
        \cup
        {Check("host_vuln_mismatch", host_summaries[i].ip, "warning") :
            i \in {j \in DOMAIN host_summaries :
                      actual_for_host(host_summaries[j].ip)
                          # host_summaries[j].total_vulns}}
        \cup
        {Check("missing_host", ip, "error") : ip \in summary_ips \ detail_ips}
        \cup
        {Check("missing_host", ip, "warning") : ip \in detail_ips \ summary_ips}

otherVars == <<clVars, laVars, vuln_layer_rules, latest_vulns, reVars, waVars>>

\* no importer is running, and the reports table has room
CanStart ==
    /\ imp.pc \in {"idle", "done", "failed", "skipped"}
    /\ Len(scan_reports) < MaxReports

\* an exception leaves run(): the session closes without a commit, and the
\* importer keeps the objects it had built
Raise(error) ==
    imp' = [NoImport EXCEPT !.pc = "failed", !.file = imp.file,
                            !.source = imp.source, !.report = imp.report,
                            !.job = imp.job, !.error = error]

\* importer.py 13-44: the file is read, the header parsed, the ScanReport
\* and the ImportJob added to the session and flushed
BeginRun(name, source) ==
    LET f == FileNamed(name)
        metadata == parse_header(f)
        report == [id |-> Len(scan_reports) + 1,
                   filename |-> name,
                   report_date |-> metadata.report_date,
                   asset_group |-> metadata.asset_group,
                   total_vulns_declared |-> metadata.total_vulns,
                   source |-> source]
        job == [NoJob EXCEPT !.id = Len(import_jobs) + 1,
                             !.scan_report_id = report.id,
                             !.status = "processing",
                             !.started_at = clock]
    IN  IF load_lines(f) = "none"
        THEN imp' = [NoImport EXCEPT !.pc = "failed", !.file = name,
                                     !.source = source,
                                     !.error = "ValueError: Cannot decode"]
        ELSE IF parse_header_raises(f) \/ parse_host_summary_raises(f)
        THEN imp' = [NoImport EXCEPT !.pc = "failed", !.file = name,
                                     !.source = source, !.error = "ValueError"]
        ELSE imp' = [NoImport EXCEPT !.pc = "processing", !.file = name,
                                     !.source = source, !.report = report,
                                     !.job = job, !.hosts = hosts,
                                     !.next_row = 1]

\* imports.py 117-156, to the importer's second flush
upload_csv(name) ==
    /\ CanStart
    /\ BeginRun(name, "manual")
    /\ UNCHANGED <<otherVars, vulnerabilities, scan_reports, import_jobs, hosts,
                   coherence_checks, clock>>

\* main.py 29-71, to the importer's second flush
auto_import(name) ==
    /\ CanStart
    /\ LET f == FileNamed(name)
           meta == parse_header(f)
           existing == ExistingReports(meta)
       IN  IF /\ load_lines(f) # "none"
              /\ ~parse_header_raises(f)
              /\ meta.report_date # <<>>
              /\ existing # {}
           THEN IF Cardinality(existing) > 1
                THEN imp' = [NoImport EXCEPT !.pc = "failed", !.file = name,
                                             !.source = "auto",
                                             !.error = "MultipleResultsFound"]
                ELSE imp' = [NoImport EXCEPT !.pc = "skipped", !.file = name,
                                             !.source = "auto"]
           ELSE BeginRun(name, "auto")
    /\ UNCHANGED <<otherVars, vulnerabilities, scan_reports, import_jobs, hosts,
                   coherence_checks, clock>>

\* importer.py 46-59: the detail section is located, its rows parsed, the
\* rules loaded by priority
import_detail ==
    /\ imp.pc = "processing"
    /\ LET f == FileNamed(imp.file)
       IN  IF ~f.has_detail
           THEN Raise("ValueError: Cannot find detail vulnerability section in CSV")
           ELSE \E order \in PriorityOrders(vuln_layer_rules) :
                    imp' = [imp EXCEPT !.pc = "rows",
                                       !.job.rows_total = Len(parse_detail_rows(f)),
                                       !.layer_rules = LayerRules(order)]
    /\ UNCHANGED <<otherVars, vulnerabilities, scan_reports, import_jobs, hosts,
                   coherence_checks, clock>>

\* a variant that commits the host upsert and the finding of every row
import_row_commits ==
    /\ imp.pc = "rows"
    /\ LET df == parse_detail_rows(FileNamed(imp.file))
       IN  /\ imp.next_row <= Len(df)
           /\ LET row == df[imp.next_row]
                  cached == row.IP \in imp.host_cache
                  table == IF cached THEN imp.hosts
                           ELSE UpsertHost(imp.hosts, row, clock)
                  host_id == CHOOSE i \in HostsWithIp(table, row.IP) : TRUE
                  rows_processed == imp.next_row
              IN  IF ~cached /\ Cardinality(HostsWithIp(imp.hosts, row.IP)) > 1
                  THEN Raise("MultipleResultsFound")
                  ELSE IF RowRaises(row)
                  THEN Raise("ValueError")
                  ELSE imp' = [imp EXCEPT
                          !.hosts = table,
                          !.host_cache = @ \cup {row.IP},
                          !.vulns = Append(@, NewVulnerability(
                                        imp.report.id, host_id, row, imp.layer_rules)),
                          !.next_row = @ + 1,
                          !.job.rows_processed =
                              IF rows_processed % FlushEvery = 0
                              THEN rows_processed ELSE @,
                          !.job.progress =
                              IF rows_processed % FlushEvery = 0
                              THEN (rows_processed * 100) \div imp.job.rows_total
                              ELSE @]
    /\ hosts' = imp'.hosts
    /\ vulnerabilities' = IF imp'.pc = "failed" THEN vulnerabilities
                          ELSE Append(vulnerabilities, imp'.vulns[Len(imp'.vulns)])
    /\ UNCHANGED <<otherVars, scan_reports, import_jobs, coherence_checks, clock>>

\* importer.py 65-165: one turn of the loop over the rows
import_row ==
    /\ imp.pc = "rows"
    /\ LET df == parse_detail_rows(FileNamed(imp.file))
       IN  /\ imp.next_row <= Len(df)
           /\ LET row == df[imp.next_row]
                  cached == row.IP \in imp.host_cache
                  table == IF cached THEN imp.hosts
                           ELSE UpsertHost(imp.hosts, row, clock)
                  host_id == CHOOSE i \in HostsWithIp(table, row.IP) : TRUE
                  rows_processed == imp.next_row
              IN  IF ~cached /\ Cardinality(HostsWithIp(imp.hosts, row.IP)) > 1
                  THEN Raise("MultipleResultsFound")
                  ELSE IF RowRaises(row)
                  THEN Raise("ValueError")
                  ELSE imp' = [imp EXCEPT
                          !.hosts = table,
                          !.host_cache = @ \cup {row.IP},
                          !.vulns = Append(@, NewVulnerability(
                                        imp.report.id, host_id, row, imp.layer_rules)),
                          !.next_row = @ + 1,
                          !.job.rows_processed =
                              IF rows_processed % FlushEvery = 0
                              THEN rows_processed ELSE @,
                          !.job.progress =
                              IF rows_processed % FlushEvery = 0
                              THEN (rows_processed * 100) \div imp.job.rows_total
                              ELSE @]
    /\ UNCHANGED <<otherVars, vulnerabilities, scan_reports, import_jobs, hosts,
                   coherence_checks, clock>>

\* importer.py 167-174: coherence checks, the job marked done, the commit
import_finalize ==
    /\ imp.pc = "rows"
    /\ LET f == FileNamed(imp.file)
           df == parse_detail_rows(f)
           job == [imp.job EXCEPT !.rows_processed = Len(df),
                                  !.progress = 100,
                                  !.status = "done",
                                  !.ended_at = clock]
       IN  /\ imp.next_row > Len(df)
           /\ IF df = <<>>
              THEN /\ Raise("ColumnNotFoundError")
                   /\ UNCHANGED <<vulnerabilities, scan_reports, import_jobs,
                                  hosts, coherence_checks>>
              ELSE /\ scan_reports' = Append(scan_reports, imp.report)
                   /\ import_jobs' = Append(import_jobs, job)
                   /\ hosts' = imp.hosts
                   /\ vulnerabilities' = vulnerabilities \o imp.vulns
                   /\ coherence_checks' = coherence_checks \cup
                          CoherenceChecks(imp.report.id, parse_header(f),
                                          parse_host_summary(f), df)
                   /\ imp' = [NoImport EXCEPT !.pc = "done", !.file = imp.file,
                                              !.source = imp.source,
                                              !.report = imp.report,
                                              !.job = job]
    /\ UNCHANGED <<otherVars, clock>>

\* time passes
Tick ==
    /\ clock < MaxClock
    /\ clock' = clock + 1
    /\ UNCHANGED <<otherVars, vulnerabilities, scan_reports, import_jobs, hosts,
                   coherence_checks, imp>>

SpecImportNext ==
    \/ \E name \in FileNames : upload_csv(name)
    \/ \E name \in FileNames : auto_import(name)
    \/ import_detail
    \/ import_row
    \/ import_finalize
    \/ Tick

SpecImport == SpecImportInit /\ [][SpecImportNext]_vars

\* the IPs of the detail rows of the files whose import was committed
ImportedIps ==
    UNION { {row.IP : row \in Range(parse_detail_rows(FileNamed(r.filename)))} :
            r \in Range(scan_reports) }

\* every imported IP has exactly one Host row
OneHostPerIp ==
    \A ip \in ImportedIps : Cardinality(HostsWithIp(hosts, ip)) = 1

\* from one state of the hosts table to the next a row stays the same
\* host, last_seen does not decrease, and a DNS or OS that was set is not
\* replaced by an empty value
HostsStep ==
    \A i \in DOMAIN hosts :
        /\ i \in DOMAIN hosts'
        /\ hosts'[i].ip = hosts[i].ip
        /\ hosts'[i].last_seen >= hosts[i].last_seen
        /\ (hosts[i].dns # "" => hosts'[i].dns # "")
        /\ (hosts[i].os # "" => hosts'[i].os # "")

\* C5: after any sequence of imports of files that contain the same IP,
\* exactly one Host row exists for that IP, its last_seen never decreases
\* from one import to the next, and its DNS and OS are never replaced by an
\* empty value.
C5_HostUpsert == []OneHostPerIp /\ [][HostsStep]_vars

\* two committed imports saw the same IP, the later file leaving DNS and OS
\* empty, and the host kept its DNS and OS and got a last_seen
C5_Witness ==
    \E i \in DOMAIN scan_reports, j \in DOMAIN scan_reports :
        /\ i < j
        /\ \E h \in DOMAIN hosts :
            /\ \E row \in Range(parse_detail_rows(FileNamed(scan_reports[i].filename))) :
                   row.IP = hosts[h].ip /\ row.DNS # ""
            /\ \E row \in Range(parse_detail_rows(FileNamed(scan_reports[j].filename))) :
                   row.IP = hosts[h].ip /\ row.DNS = "" /\ row.OS = ""
            /\ hosts[h].dns # ""
            /\ hosts[h].os # ""
            /\ hosts[h].last_seen # NULL

\* two report rows carry the same report date, asset group and declared total
SameReport(r1, r2) ==
    /\ r1.report_date = r2.report_date
    /\ r1.asset_group = r2.asset_group
    /\ r1.total_vulns_declared = r2.total_vulns_declared

\* C6: in any sequence of imports, through _auto_import or upload_csv, a
\* file whose report date, asset group and declared total match an imported
\* report creates no second ScanReport: no two reports that carry a report
\* date agree on the three.
C6_DuplicateDetection ==
    \A i \in DOMAIN scan_reports, j \in DOMAIN scan_reports :
        (i < j /\ scan_reports[i].report_date # <<>>)
            => ~SameReport(scan_reports[i], scan_reports[j])

\* run() has returned or raised after it created its ImportJob
RunEnded == imp.pc \in {"done", "failed"} /\ imp.job.status # "none"

\* C8: every import run ends with its ImportJob in a terminal status: done
\* with progress 100, or error with the exception message captured, the end
\* timestamp set in both cases.
C8_JobLifecycle ==
    RunEnded =>
        \/ /\ imp.job.status = "done"
           /\ imp.job.progress = 100
           /\ imp.job.ended_at # NULL
        \/ /\ imp.job.status = "error"
           /\ imp.job.error_message # "None"
           /\ imp.job.ended_at # NULL

\* the run failed because the file could not be decoded or has no detail zone
StructureFailure ==
    /\ imp.pc = "failed"
    /\ imp.error \in {"ValueError: Cannot decode",
                      "ValueError: Cannot find detail vulnerability section in CSV"}

\* C9: when a file cannot be decoded or its detail zone cannot be located,
\* a persisted ImportJob in status error carries the error message.
C9_FailureSurfaced ==
    StructureFailure =>
        \E k \in DOMAIN import_jobs :
            /\ import_jobs[k].status = "error"
            /\ import_jobs[k].error_message = imp.error

\* the file decodes, its header parses, it has a detail zone and rows
WellStructured(f) ==
    /\ load_lines(f) # "none"
    /\ ~parse_header_raises(f)
    /\ ~parse_host_summary_raises(f)
    /\ f.has_detail
    /\ parse_detail_rows(f) # <<>>

\* C10: a detail row with a malformed numeric or date field never aborts the
\* import: the run of a well-structured file ends done with every row
\* imported as a finding.
C10_MalformedFieldTolerated ==
    (RunEnded /\ WellStructured(FileNamed(imp.file))) =>
        /\ imp.pc = "done"
        /\ imp.job.rows_processed = Len(parse_detail_rows(FileNamed(imp.file)))
        /\ \E k \in DOMAIN scan_reports :
               /\ scan_reports[k].id = imp.report.id
               /\ Cardinality({v \in DOMAIN vulnerabilities :
                                  vulnerabilities[v].scan_report_id = imp.report.id})
                      = Len(parse_detail_rows(FileNamed(imp.file)))

----------------------------------------------------------------------------
(* Specification SpecWatcher: the poll loop of FileWatcherService over one
   watched directory, while other processes write the files. *)

MaxSize == 2
MaxMtime == 2

SpecWatcherInit ==
    /\ cl = [pc |-> "none"]
    /\ ReIdle
    /\ ImIdle
    /\ CoIdle
    /\ LaIdle
    /\ RunsIdle
    /\ \E present \in SUBSET WatchedFiles :
           fs = [k \in AllFiles |->
                    IF k \in present
                    THEN [exists |-> TRUE, mtime |-> 1, size |-> 1]
                    ELSE NoFile]
    /\ fsclock = 1
    /\ ignore_before \in {<<>>, <<MaxMtime>>}
    /\ watch_path = DefaultWatchPath
    /\ known_files = EmptyDict
    /\ watcher = NoWatcher
    /\ passed = <<>>

notWaVars == <<clVars, laVars, dbVars, reVars, imVars>>

\* another process creates the file, empty
fs_create(k) ==
    /\ ~fs[k].exists
    /\ fs' = [fs EXCEPT ![k] = [exists |-> TRUE, mtime |-> fsclock, size |-> 0]]
    /\ UNCHANGED <<notWaVars, fsclock, wpVars, known_files, watcher, passed>>

\* another process appends to the file
fs_append(k) ==
    /\ fs[k].exists
    /\ fs[k].size < MaxSize
    /\ fs' = [fs EXCEPT ![k].size = @ + 1, ![k].mtime = fsclock]
    /\ UNCHANGED <<notWaVars, fsclock, wpVars, known_files, watcher, passed>>

\* another process removes the file
fs_delete(k) ==
    /\ fs[k].exists
    /\ fs' = [fs EXCEPT ![k] = NoFile]
    /\ UNCHANGED <<notWaVars, fsclock, wpVars, known_files, watcher, passed>>

\* the file system's time passes
fs_tick ==
    /\ fsclock < MaxMtime
    /\ fsclock' = fsclock + 1
    /\ UNCHANGED <<notWaVars, fs, wpVars, known_files, watcher, passed>>

\* datetime.fromtimestamp(mtime) < ignore_before, when a cutoff is set
BeforeCutoff(mtime) == ignore_before # <<>> /\ mtime < ignore_before[1]

\* the path of a file below the watched directory, part by part
PathParts(k) ==
    CASE k = "x.csv" -> <<"x.csv">>
      [] k = "y.csv" -> <<"y.csv">>
      [] k = "sub/z.csv" -> <<"sub", "z.csv">>

\* fnmatch of one pattern part on one name
NameMatches(pat, name) ==
    CASE pat = "*.csv" -> name \in {"x.csv", "y.csv", "z.csv"}
      [] pat = "x*" -> name = "x.csv"
      [] OTHER -> pat = name

\* Path.glob: the pattern matches the relative path part by part, a part
\* "**" standing for any number of directories
RECURSIVE GlobMatch(_, _)
GlobMatch(pattern, parts) ==
    IF pattern = <<>> THEN parts = <<>>
    ELSE IF Head(pattern) = "**"
    THEN \/ GlobMatch(Tail(pattern), parts)
         \/ Len(parts) > 1 /\ GlobMatch(pattern, Tail(parts))
    ELSE /\ parts # <<>>
         /\ NameMatches(Head(pattern), Head(parts))
         /\ GlobMatch(Tail(pattern), Tail(parts))

\* service.py 45-54 and 98, 135: the files the glob of the enabled watch
\* path yields, rglob(pattern) being glob("**/" + pattern)
Matches ==
    {k \in AllFiles :
        /\ watch_path.enabled
        /\ fs[k].exists
        /\ GlobMatch(IF watch_path.recursive THEN <<"**">> \o watch_path.pattern
                     ELSE watch_path.pattern, PathParts(k))}

\* service.py 57-63: the poll loop's task is created
start ==
    /\ watcher.pc = "stopped"
    /\ watcher' = [watcher EXCEPT !.pc = "initial_scan", !.running = TRUE]
    /\ UNCHANGED <<notWaVars, fs, fsclock, wpVars, known_files, passed>>

\* service.py 91-119: the files that exist are recorded, none is imported
initial_scan ==
    /\ watcher.pc = "initial_scan"
    /\ known_files' =
           [k \in {f \in Matches : ~BeforeCutoff(fs[f].mtime)} |-> fs[k].mtime]
    /\ watcher' = [watcher EXCEPT !.pc = "sleep"]
    /\ UNCHANGED <<notWaVars, fs, fsclock, wpVars, passed>>

\* service.py 76-77 and 93: loading the watch paths raises in the initial
\* scan, which no handler encloses: the task ends with the exception
initial_scan_raised ==
    /\ watcher.pc = "initial_scan"
    /\ watcher' = [watcher EXCEPT !.pc = "crashed"]
    /\ UNCHANGED <<notWaVars, fs, fsclock, wpVars, known_files, passed>>

\* service.py 82-89 and 131: loading the watch paths raises in a cycle; the
\* handler logs and sleeps
scan_raised ==
    /\ watcher.pc = "sleep"
    /\ watcher' = [watcher EXCEPT !.pc = "backoff"]
    /\ UNCHANGED <<notWaVars, fs, fsclock, wpVars, known_files, passed>>

\* service.py 89 and 79: the handler's sleep is over, the loop goes on
backoff_done ==
    /\ watcher.pc = "backoff"
    /\ watcher' = [watcher EXCEPT !.pc = "sleep"]
    /\ UNCHANGED <<notWaVars, fs, fsclock, wpVars, known_files, passed>>

\* api/watcher.py 127-154: an administrator sets or clears the cutoff
update_path(cutoff) ==
    /\ cutoff # ignore_before
    /\ ignore_before' = cutoff
    /\ UNCHANGED <<notWaVars, fs, fsclock, watch_path, known_files, watcher, passed>>

\* service.py 79-84 and 129-136: a cycle starts, glob lists the directory
scan_directories ==
    /\ watcher.pc = "sleep"
    /\ watcher' = [watcher EXCEPT !.pc = "scan",
                                  !.todo = Matches]
    /\ UNCHANGED <<notWaVars, fs, fsclock, wpVars, known_files, passed>>

\* the loop over the matches goes on to the next file
Continue(k) ==
    watcher' = [watcher EXCEPT !.pc = "scan", !.todo = @ \ {k}, !.key = "",
                               !.current_mtime = 0, !.size1 = 0]

\* service.py 137-154: stat of the next match, cutoff, comparison with the
\* recorded mtime
scan_stat(k) ==
    /\ watcher.pc = "scan"
    /\ k \in watcher.todo
    /\ IF ~fs[k].exists
       THEN Continue(k)
       ELSE IF BeforeCutoff(fs[k].mtime)
       THEN Continue(k)
       ELSE IF k \in DOMAIN known_files /\ fs[k].mtime = known_files[k]
       THEN Continue(k)
       ELSE watcher' = [watcher EXCEPT !.pc = "size1", !.key = k,
                                       !.current_mtime = fs[k].mtime]
    /\ UNCHANGED <<notWaVars, fs, fsclock, wpVars, known_files, passed>>

\* service.py 183: the first size sample of _is_stable
is_stable_size1 ==
    /\ watcher.pc = "size1"
    /\ IF ~fs[watcher.key].exists
       THEN Continue(watcher.key)
       ELSE watcher' = [watcher EXCEPT !.pc = "size2",
                                       !.size1 = fs[watcher.key].size]
    /\ UNCHANGED <<notWaVars, fs, fsclock, wpVars, known_files, passed>>

\* a variant that only asks for a second sample above zero
StableSizes_nonzero(size1, size2) == size2 > 0

\* _is_stable's verdict on the two samples
StableSizes(size1, size2) == size1 = size2 /\ size2 > 0

\* service.py 185-186 and 157-167: the second sample after the wait; a
\* stable file is recorded and import_callback called
is_stable_size2 ==
    /\ watcher.pc = "size2"
    /\ LET k == watcher.key
       IN  IF fs[k].exists /\ StableSizes(watcher.size1, fs[k].size)
           THEN /\ known_files' =
                       [x \in DOMAIN known_files \cup {k} |->
                           IF x = k THEN watcher.current_mtime ELSE known_files[x]]
                /\ watcher' = [watcher EXCEPT !.pc = "importing", !.importing = k]
                /\ passed' = Append(passed, [key |-> k,
                                             mtime |-> watcher.current_mtime])
           ELSE /\ Continue(k)
                /\ UNCHANGED <<known_files, passed>>
    /\ UNCHANGED <<notWaVars, fs, fsclock, wpVars>>

\* service.py 168-171 and 175-176: import_callback returned
import_returned ==
    /\ watcher.pc = "importing"
    /\ watcher' = [watcher EXCEPT !.pc = "scan", !.todo = @ \ {watcher.key},
                                  !.key = "", !.current_mtime = 0, !.size1 = 0,
                                  !.importing = "None",
                                  !.last_import = watcher.key,
                                  !.last_error = "None",
                                  !.import_count = @ + 1]
    /\ UNCHANGED <<notWaVars, fs, fsclock, wpVars, known_files, passed>>

\* a variant in which a failed import drops the file's record
import_raised_forgets ==
    /\ watcher.pc = "importing"
    /\ watcher' = [watcher EXCEPT !.pc = "scan", !.todo = @ \ {watcher.key},
                                  !.key = "", !.current_mtime = 0, !.size1 = 0,
                                  !.importing = "None",
                                  !.last_error = watcher.key]
    /\ known_files' = [x \in DOMAIN known_files \ {watcher.key} |-> known_files[x]]
    /\ UNCHANGED <<notWaVars, fs, fsclock, wpVars, passed>>

\* service.py 172-176: import_callback raised
import_raised ==
    /\ watcher.pc = "importing"
    /\ watcher' = [watcher EXCEPT !.pc = "scan", !.todo = @ \ {watcher.key},
                                  !.key = "", !.current_mtime = 0, !.size1 = 0,
                                  !.importing = "None",
                                  !.last_error = watcher.key]
    /\ UNCHANGED <<notWaVars, fs, fsclock, wpVars, known_files, passed>>

\* service.py 121-127 and 79: the cycle is over, the loop sleeps
scan_done ==
    /\ watcher.pc = "scan"
    /\ watcher.todo = {}
    /\ watcher' = [watcher EXCEPT !.pc = "sleep"]
    /\ UNCHANGED <<notWaVars, fs, fsclock, wpVars, known_files, passed>>

\* service.py 63-72: the task is cancelled where it awaits; CancelledError
\* raised inside import_callback at line 169 passes the except Exception
\* clause, runs the finally clause (177-178) and ends the loop at line 85
stop ==
    /\ watcher.pc \in {"initial_scan", "sleep", "backoff", "importing"}
    /\ watcher' = [watcher EXCEPT !.pc = "cancelled", !.todo = {}, !.key = "",
                                  !.current_mtime = 0, !.size1 = 0,
                                  !.importing = "None", !.running = FALSE]
    /\ UNCHANGED <<notWaVars, fs, fsclock, wpVars, known_files, passed>>

SpecWatcherNext ==
    \/ \E k \in WatchedFiles : fs_create(k)
    \/ \E k \in WatchedFiles : fs_append(k)
    \/ \E k \in WatchedFiles : fs_delete(k)
    \/ fs_tick
    \/ start
    \/ initial_scan
    \/ scan_directories
    \/ \E k \in AllFiles : scan_stat(k)
    \/ is_stable_size1
    \/ is_stable_size2
    \/ import_returned
    \/ import_raised
    \/ scan_done
    \/ stop

SpecWatcher == SpecWatcherInit /\ [][SpecWatcherNext]_vars

\* the step that takes the second stability sample: the file is passed to
\* import_callback when the two samples are equal and not zero, and is not
\* passed otherwise
GateStep ==
    (watcher.pc = "size2" /\ watcher'.pc # "size2") =>
        LET k == watcher.key
        IN  IF fs[k].exists /\ watcher.size1 = fs[k].size /\ fs[k].size > 0
            THEN passed' = Append(passed, [key |-> k,
                                           mtime |-> watcher.current_mtime])
            ELSE passed' = passed

\* import_callback is called by that step only
OnlyGatePasses == passed' # passed => watcher.pc = "size2"

\* no file is passed twice under the same modification time
PassedOnce ==
    \A i \in DOMAIN passed, j \in DOMAIN passed : i # j => passed[i] # passed[j]

RunFailed == imp.pc = "failed" /\ imp.error # "MultipleResultsFound"

\* C11: for every decodable file whose detail zone is located the import
\* reaches done: a run fails only on a file that cannot be decoded, that has
\* no detail zone, or (C10) that has a row int() refuses; header or summary
\* metadata, coherence discrepancies and the number of rows never fail it.
C11_LocatedDetailReachesDone ==
    RunFailed =>
        LET f == FileNamed(imp.file)
        IN  \/ load_lines(f) = "none"
            \/ ~f.has_detail
            \/ \E row \in Range(parse_detail_rows(f)) : RowRaises(row)

----------------------------------------------------------------------------
(* Specification SpecCoherence: _run_coherence_checks applied to one parsed
   report. *)

MaxRows == 2
MaxDeclared == 5

CoIps == {"10.0.0.1", "10.0.0.2"}

\* the detail rows, by their IP column
CoFrames == UNION {[1..n -> {[IP |-> ip] : ip \in CoIps}] : n \in 0..MaxRows}

\* the host summaries a report may carry
CoSummaries ==
    { <<>>,
      <<[ip |-> "10.0.0.1", total_vulns |-> 1]>>,
      <<[ip |-> "10.0.0.1", total_vulns |-> 1],
        [ip |-> "10.0.0.2", total_vulns |-> 1]>> }

SpecCoherenceInit ==
    /\ cl = [pc |-> "none"]
    /\ ReIdle
    /\ ImIdle
    /\ LaIdle
    /\ RunsIdle
    /\ WaIdle
    /\ \E total \in {<<>>} \cup {<<n>> : n \in 0..MaxDeclared},
          active \in {<<>>} \cup {<<n>> : n \in 1..Cardinality(CoIps)},
          summaries \in CoSummaries,
          df \in CoFrames :
           cc = [NoCase EXCEPT !.pc = "parsed", !.total_vulns = total,
                               !.active_hosts = active,
                               !.host_summaries = summaries, !.df = df]

\* importer.py 178-236: the checks run on a frame that has rows
run_coherence_checks ==
    /\ cc.pc = "parsed"
    /\ cc.df # <<>>
    /\ cc' = [cc EXCEPT !.pc = "checked",
                        !.checks = CoherenceChecks(
                            1, [total_vulns |-> cc.total_vulns,
                                active_hosts |-> cc.active_hosts],
                            cc.host_summaries, cc.df)]
    /\ UNCHANGED <<cl, runs, laVars, dbVars, reVars, imVars, waVars>>

\* importer.py 181: a frame without rows has no IP column
run_coherence_checks_raised ==
    /\ cc.pc = "parsed"
    /\ cc.df = <<>>
    /\ cc' = [cc EXCEPT !.pc = "raised"]
    /\ UNCHANGED <<cl, runs, laVars, dbVars, reVars, imVars, waVars>>

SpecCoherenceNext == run_coherence_checks \/ run_coherence_checks_raised

SpecCoherence == SpecCoherenceInit /\ [][SpecCoherenceNext]_vars

\* the total_vulns_mismatch records of the call
TotalRecords == {c \in cc.checks : c.check_type = "total_vulns_mismatch"}

\* C12: the total-count check emits a record exactly when the declared total
\* is present and differs from the number of parsed detail rows, of severity
\* warning when the difference is 1 or 2 and error when it is 3 or more.
C12_TotalCountCheck ==
    cc.pc \in {"checked", "raised"} =>
        LET actual == Len(cc.df)
            differs == cc.total_vulns # <<>> /\ cc.total_vulns[1] # actual
        IN  /\ differs <=> TotalRecords # {}
            /\ Cardinality(TotalRecords) <= 1
            /\ \A c \in TotalRecords :
                   c.severity = IF Abs(cc.total_vulns[1] - actual) >= 3
                                THEN "error" ELSE "warning"

\* the committed coherence records of a report
ReportChecks(id) == {c \in coherence_checks : c.scan_report_id = id}

\* what the file's own text declares and lists, for the run that ended done
DoneFile == FileNamed(imp.file)
DoneRows == SelectSeq(DoneFile.rows, LAMBDA row : row.IP # "")
DoneIps == {DoneRows[i].IP : i \in DOMAIN DoneRows}
DoneRowsOf(ip) == Cardinality({i \in DOMAIN DoneRows : DoneRows[i].IP = ip})
DoneTotalGap ==
    IF DoneFile.total_vulns = "" THEN 0
    ELSE IF IntValue[DoneFile.total_vulns] >= Len(DoneRows)
         THEN IntValue[DoneFile.total_vulns] - Len(DoneRows)
         ELSE Len(DoneRows) - IntValue[DoneFile.total_vulns]

\* the declared host count and the host summary agree with the detail rows
DoneHostsAgree ==
    /\ DoneFile.active_hosts # "" =>
           IntValue[DoneFile.active_hosts] = Cardinality(DoneIps)
    /\ {DoneFile.summaries[i].ip : i \in DOMAIN DoneFile.summaries} = DoneIps
    /\ \A i \in DOMAIN DoneFile.summaries :
           IntValue[DoneFile.summaries[i].total_vulns]
               = DoneRowsOf(DoneFile.summaries[i].ip)

\* a well-formed file: it decodes, its header and host summary parse, its
\* detail zone holds at least one row and every row's Severity, QID and
\* Times Detected are numbers
WellFormed(f) ==
    /\ WellStructured(f)
    /\ \A row \in Range(parse_detail_rows(f)) : ~RowRaises(row)

\* C14: importing one well-formed file yields exactly one ScanReport and one
\* ImportJob, the job done with rows_processed equal to the number of detail
\* rows, and exactly the coherence records its counts call for: when hosts
\* and per-host counts agree, one total_vulns_mismatch of severity warning for
\* a declared total off by 1 or 2 (100 declared, 98 listed) and no other
\* record, and no record at all for a total that is absent or equal.
C14_OneFileImport ==
    /\ RunFailed => ~WellFormed(DoneFile)
    /\ imp.pc = "done" =>
        LET id == imp.report.id
            jobs == {k \in DOMAIN import_jobs : import_jobs[k].scan_report_id = id}
            checks == ReportChecks(id)
        IN  /\ Cardinality({k \in DOMAIN scan_reports : scan_reports[k].id = id}) = 1
            /\ Cardinality(jobs) = 1
            /\ \A k \in jobs :
                   /\ import_jobs[k].status = "done"
                   /\ import_jobs[k].progress = 100
                   /\ import_jobs[k].rows_processed = Len(DoneRows)
            /\ Cardinality({v \in DOMAIN vulnerabilities :
                               vulnerabilities[v].scan_report_id = id}) = Len(DoneRows)
            /\ Cardinality({c \in checks : c.check_type = "total_vulns_mismatch"})
                   = IF DoneTotalGap = 0 THEN 0 ELSE 1
            /\ \A c \in checks :
                   c.check_type = "total_vulns_mismatch" =>
                       c.severity = IF DoneTotalGap <= 2 THEN "warning" ELSE "error"
            /\ DoneHostsAgree =>
                   \A c \in checks : c.check_type = "total_vulns_mismatch"

\* a file declaring 3 findings and listing 1, hosts and per-host counts in
\* agreement, was imported: one warning on the total and nothing else
C14_Witness ==
    /\ imp.pc = "done"
    /\ DoneTotalGap = 2
    /\ DoneHostsAgree
    /\ ReportChecks(imp.report.id) =
           {[scan_report_id |-> imp.report.id, check_type |-> "total_vulns_mismatch",
             entity |-> "", severity |-> "warning"]}

\* C15: whenever dirty is false, the current rule set is exactly the one the
\* most recent successful full reclassification applied (every committed
\* rule mutation sets dirty to true, only the successful completion of a
\* full run sets it to false).
C15_DirtyFalseMeansCurrent ==
    reclassify_state.dirty = "False" => applied_rules = vuln_layer_rules

----------------------------------------------------------------------------
(* Specification SpecLayers: a layer is deleted while reclassification     *)
(* runs are triggered over the persisted findings.                         *)

LaNext ==
    \/ \E tpl \in RuleTemplates : create_rule(tpl)
    \/ \E l \in DeletedLayers : delete_layer_update(l)
    \/ delete_layer_commit
    \/ delete_layer_raised
    \/ delete_layer_refresh
    \/ reclassify_started
    \/ \E t \in TaskIds :
        \/ run_load_none(t)
        \/ run_load_rules(t)
        \/ run_reset(t)
        \/ run_rule_fk(t)
        \/ run_rule(t)
        \/ run_commit(t)
        \/ run_refresh(t)
        \/ run_close(t)
        \/ run_close_failed(t)

SpecLayers == ReInit /\ [][LaNext]_vars

\* no finding references a layer that is not stored
NoDanglingLayer ==
    \A i \in DOMAIN vulnerabilities :
        vulnerabilities[i].layer_id # NULL => vulnerabilities[i].layer_id \in vuln_layers

\* the step that commits a layer's deletion keeps every finding, sets
\* layer_id to null on those that referenced the layer and changes nothing
\* else in any finding
DeleteStep ==
    (del.pc = "updated" /\ del'.pc = "refresh") =>
        /\ del.layer_id \notin vuln_layers'
        /\ DOMAIN vulnerabilities' = DOMAIN vulnerabilities
        /\ \A i \in DOMAIN vulnerabilities :
               /\ vulnerabilities'[i].title = vulnerabilities[i].title
               /\ vulnerabilities'[i].category = vulnerabilities[i].category
               /\ vulnerabilities'[i].layer_id =
                      IF vulnerabilities[i].layer_id = del.layer_id
                      THEN NULL ELSE vulnerabilities[i].layer_id

\* C17: deleting a layer sets layer_id to null on every finding that
\* referenced it and deletes no finding: afterwards no finding references the
\* deleted layer, and the findings, apart from those layer_id values, are
\* unchanged.
C17_DeleteLayerNullifies == []NoDanglingLayer /\ [][DeleteStep]_vars

\* a layer referenced by a finding was deleted: the finding is still stored,
\* with layer_id null
C17_Witness ==
    /\ del.pc = "refresh"
    /\ del.updated # {}
    /\ del.layer_id \notin vuln_layers
    /\ \A i \in del.updated :
           i \in DOMAIN vulnerabilities /\ vulnerabilities[i].layer_id = NULL

\* C18: for any finding and any fixed rule set, classifying twice yields the
\* same layer_id: two imports of the same finding assign it the same layer,
\* and so do two reclassification runs.
C18_ClassifyTwice ==
    cl.pc = "reclassified2" =>
        /\ cl.imported2 = cl.imported
        /\ cl.reclassified2 = cl.reclassified

----------------------------------------------------------------------------
(* Specification SpecWatchPaths: the poll loop over a watched directory
   with a subdirectory, under the watch path an administrator configured,
   with failures of the store and changes of the cutoff. *)

\* the files other processes write: one in the directory, one below it
GlobFiles == {"x.csv"} \cup SubFiles

\* the watch path rows an administrator may have stored
WatchConfigs ==
    { DefaultWatchPath,
      [enabled |-> TRUE, pattern |-> <<"*.csv">>, recursive |-> TRUE],
      [enabled |-> TRUE, pattern |-> <<"x*">>, recursive |-> TRUE],
      [enabled |-> TRUE, pattern |-> <<"**", "*.csv">>, recursive |-> FALSE],
      [enabled |-> FALSE, pattern |-> <<"*.csv">>, recursive |-> TRUE] }

SpecWatchPathsInit ==
    /\ cl = [pc |-> "none"]
    /\ ReIdle
    /\ ImIdle
    /\ CoIdle
    /\ LaIdle
    /\ RunsIdle
    /\ \E present \in SUBSET GlobFiles :
           fs = [k \in AllFiles |->
                    IF k \in present
                    THEN [exists |-> TRUE, mtime |-> 1, size |-> 1]
                    ELSE NoFile]
    /\ fsclock = 1
    /\ ignore_before \in {<<>>, <<MaxMtime>>}
    /\ watch_path \in WatchConfigs
    /\ known_files = EmptyDict
    /\ watcher = NoWatcher
    /\ passed = <<>>

SpecWatchPathsNext ==
    \/ \E k \in GlobFiles : fs_create(k)
    \/ \E k \in GlobFiles : fs_append(k)
    \/ \E k \in GlobFiles : fs_delete(k)
    \/ fs_tick
    \/ \E cutoff \in {<<>>, <<MaxMtime>>} : update_path(cutoff)
    \/ start
    \/ initial_scan
    \/ initial_scan_raised
    \/ scan_raised
    \/ backoff_done
    \/ scan_directories
    \/ \E k \in AllFiles : scan_stat(k)
    \/ is_stable_size1
    \/ is_stable_size2
    \/ import_returned
    \/ import_raised
    \/ scan_done
    \/ stop

SpecWatchPaths == SpecWatchPathsInit /\ [][SpecWatchPathsNext]_vars

\* C13: while the watcher has not been stopped, no failure while loading
\* the watch paths, scanning or importing a file terminates the polling
\* task: the task never ends with an exception.
C13_PollingTaskSurvives == watcher.pc # "crashed"

\* C19: the watcher passes a file to the importer only if it matches the
\* glob pattern of an enabled watch path, and a file in a subdirectory only
\* if that watch path is recursive.
C19_OnlyMatchingFiles ==
    \A i \in DOMAIN passed :
        LET parts == PathParts(passed[i].key)
        IN  /\ watch_path.enabled
            /\ GlobMatch(<<"**">> \o watch_path.pattern, parts)
            /\ Len(parts) > 1 => watch_path.recursive

\* the initial pass records every file the enabled watch path matches, with
\* its modification time, and passes none
RecordStep ==
    (watcher.pc = "initial_scan" /\ watcher'.pc = "sleep") =>
        /\ passed' = passed
        /\ \A k \in Matches :
               k \in DOMAIN known_files' /\ known_files'[k] = fs[k].mtime

\* a recorded file is passed only under another modification time than the
\* recorded one
NoRepass ==
    passed' # passed =>
        LET e == passed'[Len(passed')]
        IN  ~(e.key \in DOMAIN known_files /\ known_files[e.key] = e.mtime)

\* a record stays until the file is passed under its new modification time
RecordKept ==
    \A k \in DOMAIN known_files :
        /\ k \in DOMAIN known_files'
        /\ known_files'[k] # known_files[k] =>
               /\ passed' # passed
               /\ passed'[Len(passed')] = [key |-> k, mtime |-> known_files'[k]]

\* C16: a file that already exists under an enabled watch path when the
\* watcher starts is recorded by the initial pass, and is never passed to the
\* importer as long as its modification time stays the recorded one.
C16_ExistingFilesRecorded == [][RecordStep /\ NoRepass /\ RecordKept]_vars

----------------------------------------------------------------------------
(* Specification SpecRace: uploads imported while reclassification runs    *)
(* are triggered and rules deleted, over the same table of findings.       *)

\* the file the uploads carry
RaceFiles == {"a.csv"}

SpecRaceNext ==
    \/ \E name \in RaceFiles : upload_csv(name)
    \/ import_detail
    \/ import_row
    \/ import_finalize
    \/ \E rule \in vuln_layer_rules : delete_rule(rule)
    \/ reclassify_started
    \/ \E t \in TaskIds :
        \/ run_load_none(t)
        \/ run_load_rules(t)
        \/ run_reset(t)
        \/ run_rule(t)
        \/ run_commit(t)
        \/ run_refresh(t)
        \/ run_close(t)

SpecRace == SpecImportInit /\ [][SpecRaceNext]_vars

\* no import run has raised and no reclassification has recorded an error
NeitherFails ==
    /\ imp.pc # "failed"
    /\ reclassify_state.error = "None"
    /\ \A t \in TaskIds : tasks[t].pc # "failed"

\* a stored layer_id is null or the layer of a rule matching the finding
LayersWritten ==
    \A i \in DOMAIN vulnerabilities :
        \/ vulnerabilities[i].layer_id = NULL
        \/ \E r \in RuleTemplates :
               /\ r.layer_id = vulnerabilities[i].layer_id
               /\ RuleMatchesFinding(r, vulnerabilities[i])

\* the committed findings change only by the commit of an import, which
\* appends its rows with their import-time layer, or by the commit of a
\* reclassification, which stores the layer_ids it wrote
WriterStep ==
    vulnerabilities' # vulnerabilities =>
        \/ /\ imp.pc = "rows"
           /\ imp'.pc = "done"
           /\ vulnerabilities' = vulnerabilities \o imp.vulns
        \/ \E t \in TaskIds :
               /\ tasks[t].pc = "commit"
               /\ DOMAIN vulnerabilities' = DOMAIN vulnerabilities
               /\ \A i \in DOMAIN vulnerabilities :
                      vulnerabilities'[i] =
                          IF i \in DOMAIN tasks[t].overlay
                          THEN [vulnerabilities[i] EXCEPT
                                    !.layer_id = tasks[t].overlay[i]]
                          ELSE vulnerabilities[i]

\* the rows of an import in progress are out of a reclassification's reach
SessionStep ==
    (imp.pc = "rows" /\ imp'.pc = "rows") =>
        \A i \in DOMAIN imp.vulns : imp'.vulns[i] = imp.vulns[i]

\* C20: when an import run and a reclassification job interleave in any
\* order, neither fails because of the other (the import ends done, the
\* reclassification records no error), and each finding's layer_id is one
\* that import-time classification or reclassification wrote.
C20_ImportReclassifyRace ==
    [](NeitherFails /\ LayersWritten) /\ [][WriterStep /\ SessionStep]_vars

\* an import committed its rows between the reset and the first rule of a
\* reclassification that had reset the rows of an earlier import
C20_Witness ==
    \E t \in TaskIds :
        /\ tasks[t].pc = "rules"
        /\ tasks[t].i = 0
        /\ DOMAIN tasks[t].overlay # {}
        /\ DOMAIN tasks[t].overlay # DOMAIN vulnerabilities
        /\ imp.pc = "done"

\* the step that ends a failed run: the error is recorded, running becomes
\* false, and the layer_ids written by the rules applied before the failure
\* are the stored ones
FailedRunStep ==
    \A t \in TaskIds :
        (tasks[t].pc = "failed" /\ tasks'[t].pc = "free") =>
            /\ reclassify_state'.error # "None"
            /\ ~reclassify_state'.running
            /\ tasks[t].i >= 1 =>
                   \A i \in DOMAIN tasks[t].overlay :
                       /\ i \in DOMAIN vulnerabilities'
                       /\ vulnerabilities'[i].layer_id = tasks[t].overlay[i]

\* C21: if a reclassification run fails after k rules have been applied, the
\* state records the error and running becomes false, and the layer
\* assignments made by those k completed rules remain persisted.
C21_PartialRunPersists == [][FailedRunStep]_vars

\* the rule matches the finding for the importer (importer.py:115-123) and
\* for the reclassification statement (layers.py:286-291) alike
MatchesOnBothPaths(rule) ==
    LET value == IF rule.match_field = "title" THEN cl.title ELSE cl.category
    IN  /\ RuleMatchesRow(LayerRules(<<rule>>)[1], cl.title, cl.category)
        /\ SqlContains(value, EscapeLike(Lower(rule.pattern)))

\* C27: among rules of equal priority the original insertion order decides:
\* when two equal-priority rules both match a finding, the earlier-defined
\* rule's layer is assigned, by the importer and by reclassification alike.
C27_EqualPriorityInsertionOrder ==
    cl.pc = "reclassified" =>
        \A first \in cl.rules, second \in cl.rules :
            ( /\ first.priority = second.priority
              /\ first.id < second.id
              /\ MatchesOnBothPaths(first)
              /\ MatchesOnBothPaths(second) )
            => (cl.imported = first.layer_id /\ cl.reclassified = first.layer_id)

\* the deletion request and every reclassification run have finished
LayersQuiescent ==
    /\ del = NoDelete
    /\ \A t \in TaskIds : tasks[t].pc = "free"

\* C29: when a layer deletion interleaves with a running reclassification in
\* any order, the reclassification does not end in error and, after both
\* have finished, no finding references the deleted layer.
C29_DeleteDuringReclassify ==
    /\ \A t \in TaskIds : tasks[t].pc # "failed"
    /\ reclassify_state.error = "None"
    /\ LayersQuiescent =>
           \A i \in DOMAIN vulnerabilities :
               vulnerabilities[i].layer_id \in vuln_layers \cup {NULL}

\* the step that ends an import the watcher triggered: the callback returned
\* (last_import, import_count) or raised (last_error)
ImportEndsOnItsOwn ==
    (watcher.pc = "importing" /\ watcher'.pc # "importing") =>
        \/ /\ watcher'.last_import = watcher.key
           /\ watcher'.import_count = watcher.import_count + 1
        \/ watcher'.last_error = watcher.key

\* C22: stopping the watcher while an import it triggered is in flight does
\* not abort that import: the import callback runs to completion or fails on
\* its own, and only the sleep/poll is cancelled.
C22_StopLeavesImport == [][ImportEndsOnItsOwn]_vars

\* the step that passes a file to import_callback has recorded the
\* modification time the scan read, before the import's outcome is known
GateRecords ==
    passed' # passed =>
        LET e == passed'[Len(passed')]
        IN  /\ watcher'.pc = "importing"
            /\ e.key \in DOMAIN known_files'
            /\ known_files'[e.key] = e.mtime

\* however the import ends (it returns, also when it skipped a duplicate, it
\* raises, or the task is cancelled), the record stays as written
OutcomeKeepsRecord ==
    (watcher.pc = "importing" /\ watcher'.pc # "importing") =>
        known_files' = known_files

\* a file is passed again only under a later modification time than every
\* time it was passed under before
PassedAgainOnlyNewer ==
    passed' # passed =>
        LET e == passed'[Len(passed')]
        IN  \A i \in DOMAIN passed :
                passed[i].key = e.key => passed[i].mtime < e.mtime

get_status ==
    [running |-> watcher.running,
     active_paths |-> IF watch_path.enabled THEN 1 ELSE 0,
     known_files |-> Cardinality(DOMAIN known_files)]

\* the polling task has not ended: it is in the initial scan, asleep or in
\* a scan cycle
PollingTaskAlive ==
    watcher.pc \in {"initial_scan", "sleep", "backoff", "scan", "size1",
                    "size2", "importing"}

\* C30: whenever the watcher status reports running=true, the polling task
\* is alive and will perform further scan cycles: the running flag is never
\* left true after the polling task has terminated.
C30_RunningMeansAlive == get_status.running => PollingTaskAlive

\* api/imports.py 85-114: the job joined with its report, read in the
\* caller's own session, which sees committed rows only
get_import(job_id) ==
    LET found == {i \in DOMAIN import_jobs :
                     /\ import_jobs[i].id = job_id
                     /\ \E r \in DOMAIN scan_reports :
                            scan_reports[r].id = import_jobs[i].scan_report_id}
    IN  IF found = {}
        THEN [code |-> 404, status |-> "none", progress |-> 0,
              rows_processed |-> 0]
        ELSE LET job == import_jobs[CHOOSE i \in found : TRUE]
             IN  [code |-> 200, status |-> job.status, progress |-> job.progress,
                  rows_processed |-> job.rows_processed]

\* an import run has flushed its job and has neither committed nor raised
ImportInProgress == imp.pc \in {"processing", "rows"}

\* C23: while an import run is in progress, a status query for its job by
\* another caller returns the job in status processing with the
\* rows_processed and progress values the importer last flushed.
C23_PartialProgressObservable ==
    ImportInProgress =>
        LET answer == get_import(imp.job.id)
        IN  /\ answer.code = 200
            /\ answer.status = "processing"
            /\ answer.rows_processed = imp.job.rows_processed
            /\ answer.progress = imp.job.progress

\* the step that declares an import job done leaves the materialized view
\* equal to the stored findings
RefreshedBeforeDone ==
    (imp.pc # "done" /\ imp'.pc = "done") => latest_vulns' = vulnerabilities'

\* the step that declares a reclassification run complete (progress 100,
\* dirty false) leaves the materialized view equal to the stored findings
RefreshedBeforeComplete ==
    ( /\ reclassify_state.progress # 100
      /\ reclassify_state'.progress = 100
      /\ reclassify_state'.dirty = "False" )
    => latest_vulns' = vulnerabilities'

\* C24: the materialized latest-finding aggregate is refreshed, and the
\* refresh awaited, before an import job is declared done and before a
\* reclassification run is declared complete.
C24_RefreshBeforeDone == [][RefreshedBeforeDone /\ RefreshedBeforeComplete]_vars

\* the stored findings, hosts, reports, jobs and coherence records
StoredTables == <<vulnerabilities, hosts, scan_reports, import_jobs, coherence_checks>>

\* a step in which a run fails, and any step of a run other than its
\* commit, leaves the stored tables as they were
FailedRunWritesNothing ==
    /\ imp'.pc = "failed" => StoredTables' = StoredTables
    /\ StoredTables' # StoredTables => (imp.pc = "rows" /\ imp'.pc = "done")

\* every stored finding belongs to a stored report, each stored report has
\* as many findings as its file has detail rows, and every stored host was
\* seen in a file whose import was committed
NothingFromFailedRuns ==
    /\ \A i \in DOMAIN vulnerabilities :
           \E r \in DOMAIN scan_reports :
               scan_reports[r].id = vulnerabilities[i].scan_report_id
    /\ \A r \in DOMAIN scan_reports :
           Cardinality({i \in DOMAIN vulnerabilities :
                           vulnerabilities[i].scan_report_id = scan_reports[r].id})
               = Len(FileNamed(scan_reports[r].filename).rows)
    /\ \A i \in DOMAIN hosts : hosts[i].ip \in ImportedIps

\* C25: if an import run fails at any point after it started writing, none
\* of the Findings, Host creations or Host updates it staged remain
\* persisted, so a later import of the same file cannot double-count them.
C25_FailedImportLeavesNothing ==
    []NothingFromFailedRuns /\ [][FailedRunWritesNothing]_vars

\* a run of d.csv failed on its second row, after it had flushed its report
\* and job, staged a finding and an update of a host an earlier import had
\* stored: the host is as that import left it, and no finding or host of
\* d.csv is stored
C25_Witness ==
    /\ imp.pc = "failed"
    /\ imp.file = "d.csv"
    /\ imp.error = "ValueError"
    /\ imp.job.id # 0
    /\ \E i \in DOMAIN hosts :
           /\ hosts[i].ip = "10.0.0.1"
           /\ hosts[i].dns = "d"
           /\ hosts[i].last_seen < clock
    /\ \A i \in DOMAIN hosts : hosts[i].ip # "10.0.0.2"
    /\ \A r \in DOMAIN scan_reports : scan_reports[r].filename # "d.csv"

----------------------------------------------------------------------------
(* Specification SpecOverlap: uploads whose importer runs overlap in time, *)
(* each in its own session, on files that contain the same IP.             *)

\* the files the overlapping uploads carry: both list host 10.0.0.1 only
OverlapFiles == {"a.csv", "b.csv"}

\* the run of session s
RunOf(s) == runs.session[s]

\* imports.py 117-141 and importer.py 21-59: the report and the job are
\* flushed, the detail rows parsed, the rules loaded
overlap_upload(s, name) ==
    /\ RunOf(s).pc \in {"idle", "done", "failed"}
    /\ runs.report_seq <= MaxReports
    /\ \E order \in PriorityOrders(vuln_layer_rules) :
        LET f == FileNamed(name)
            metadata == parse_header(f)
            report == [id |-> runs.report_seq,
                       filename |-> name,
                       report_date |-> metadata.report_date,
                       asset_group |-> metadata.asset_group,
                       total_vulns_declared |-> metadata.total_vulns,
                       source |-> "manual"]
            job == [NoJob EXCEPT !.id = runs.report_seq,
                                 !.scan_report_id = report.id,
                                 !.status = "processing",
                                 !.started_at = clock,
                                 !.rows_total = Len(parse_detail_rows(f))]
        IN  runs' = [runs EXCEPT
                !.report_seq = @ + 1,
                !.session[s] = [NoRun EXCEPT !.pc = "select", !.file = name,
                                             !.report = report, !.job = job,
                                             !.next_row = 1,
                                             !.layer_rules = LayerRules(order)]]
    /\ UNCHANGED <<cl, cc, laVars, dbVars, reVars, imVars, waVars>>

\* importer.py 92-157: the row's finding is added to the session and the
\* loop goes on to the next row, or to the coherence checks after the last
StageFinding(run, host_id) ==
    LET df == parse_detail_rows(FileNamed(run.file))
        row == df[run.next_row]
    IN  [run EXCEPT
            !.vulns = Append(@, NewVulnerability(run.report.id, host_id, row,
                                                 run.layer_rules)),
            !.next_row = @ + 1,
            !.pc = IF run.next_row = Len(df) THEN "finalize" ELSE "select"]

\* importer.py 70-90: the next row's host is taken from the cache, or looked
\* up in the store; a host that is found is updated, one that is not is
\* built and its insert awaited
overlap_select_host(s) ==
    /\ RunOf(s).pc = "select"
    /\ LET run == RunOf(s)
           row == parse_detail_rows(FileNamed(run.file))[run.next_row]
           found == HostsWithIp(hosts, row.IP)
       IN  IF row.IP \in DOMAIN run.host_cache
           THEN runs' = [runs EXCEPT
                    !.session[s] = StageFinding(run, run.host_cache[row.IP])]
           ELSE IF found = {}
           THEN runs' = [runs EXCEPT !.session[s].pc = "insert"]
           ELSE LET host == hosts[CHOOSE i \in found : TRUE]
                    cached == [ip \in DOMAIN run.host_cache \cup {row.IP} |->
                                  IF ip = row.IP THEN host.id
                                  ELSE run.host_cache[ip]]
                IN  runs' = [runs EXCEPT
                        !.session[s] = StageFinding(
                            [run EXCEPT !.host_cache = cached,
                                        !.updated = @ \cup {UpdateHost(host, row, clock)}],
                            host.id)]
    /\ UNCHANGED <<cl, cc, laVars, dbVars, reVars, imVars, waVars>>

\* another session holds an uncommitted insert of a host with this IP: the
\* unique index on hosts.ip makes a second insert wait for its transaction
InsertPending(s, ip) ==
    \E o \in RunIds \ {s} :
        /\ RunOf(o).pc \in {"select", "insert", "finalize"}
        /\ \E i \in DOMAIN RunOf(o).inserted : RunOf(o).inserted[i].ip = ip

\* importer.py 81-88: session.add(host) and the flush; no committed host has
\* the IP, the row is inserted in the session's transaction
overlap_insert_host(s) ==
    /\ RunOf(s).pc = "insert"
    /\ LET run == RunOf(s)
           row == parse_detail_rows(FileNamed(run.file))[run.next_row]
           host == NewHost(runs.host_seq, row)
           cached == [ip \in DOMAIN run.host_cache \cup {row.IP} |->
                         IF ip = row.IP THEN host.id ELSE run.host_cache[ip]]
       IN  /\ ~InsertPending(s, row.IP)
           /\ HostsWithIp(hosts, row.IP) = {}
           /\ runs' = [runs EXCEPT
                  !.host_seq = @ + 1,
                  !.session[s] = StageFinding(
                      [run EXCEPT !.host_cache = cached,
                                  !.inserted = Append(@, host)],
                      host.id)]
    /\ UNCHANGED <<cl, cc, laVars, dbVars, reVars, imVars, waVars>>

\* importer.py 88: a host with the IP was committed after this run's lookup;
\* the flush raises IntegrityError (unique constraint on hosts.ip), run()
\* has no handler and the session is closed without a commit
overlap_insert_host_raised(s) ==
    /\ RunOf(s).pc = "insert"
    /\ LET run == RunOf(s)
           row == parse_detail_rows(FileNamed(run.file))[run.next_row]
       IN  /\ ~InsertPending(s, row.IP)
           /\ HostsWithIp(hosts, row.IP) # {}
           /\ runs' = [runs EXCEPT
                  !.host_seq = @ + 1,
                  !.session[s] = [NoRun EXCEPT !.pc = "failed", !.file = run.file,
                                               !.report = run.report,
                                               !.job = run.job,
                                               !.error = "IntegrityError"]]
    /\ UNCHANGED <<cl, cc, laVars, dbVars, reVars, imVars, waVars>>

\* the hosts table after the commit of a session: its updates written to
\* the rows it had found, its inserted rows added
CommitHosts(table, run) ==
    [i \in DOMAIN table |->
        IF \E u \in run.updated : u.id = table[i].id
        THEN LET u == CHOOSE u \in run.updated : u.id = table[i].id
             IN  [table[i] EXCEPT !.last_seen = u.last_seen,
                                  !.dns = u.dns, !.os = u.os]
        ELSE table[i]] \o run.inserted

\* importer.py 167-174: coherence checks, the job marked done, the commit
overlap_finalize(s) ==
    /\ RunOf(s).pc = "finalize"
    /\ LET run == RunOf(s)
           f == FileNamed(run.file)
           df == parse_detail_rows(f)
           job == [run.job EXCEPT !.rows_processed = Len(df),
                                  !.progress = 100,
                                  !.status = "done",
                                  !.ended_at = clock]
       IN  /\ scan_reports' = Append(scan_reports, run.report)
           /\ import_jobs' = Append(import_jobs, job)
           /\ hosts' = CommitHosts(hosts, run)
           /\ vulnerabilities' = vulnerabilities \o run.vulns
           /\ coherence_checks' = coherence_checks \cup
                  CoherenceChecks(run.report.id, parse_header(f),
                                  parse_host_summary(f), df)
           /\ runs' = [runs EXCEPT
                  !.session[s] = [NoRun EXCEPT !.pc = "done", !.file = run.file,
                                               !.report = run.report,
                                               !.job = job]]
    /\ UNCHANGED <<cl, cc, laVars, vuln_layer_rules, latest_vulns, reVars, imp,
                   clock, waVars>>

SpecOverlapNext ==
    \/ \E s \in RunIds, name \in OverlapFiles : overlap_upload(s, name)
    \/ \E s \in RunIds :
        \/ overlap_select_host(s)
        \/ overlap_insert_host(s)
        \/ overlap_insert_host_raised(s)
        \/ overlap_finalize(s)
    \/ Tick

SpecOverlap == SpecImportInit /\ [][SpecOverlapNext]_vars

\* C28: two import runs that overlap in time and both contain the same
\* previously unknown IP both end done and leave exactly one Host row for
\* that IP: the look-up-then-insert host upsert does not let either run fail
\* or create a second row.
C28_OverlappingUpserts ==
    /\ \A s \in RunIds : RunOf(s).pc # "failed"
    /\ \A i \in DOMAIN hosts, j \in DOMAIN hosts :
           hosts[i].ip = hosts[j].ip => i = j

====
